---------------------------- MODULE Spec2Model ----------------------------
(***************************************************************************)
(* The crossword layout engine of api/crossword/generate.js                *)
(* (src/unnamed/part_002): class CrosswordGrid (canPlace, place,           *)
(* findIntersections, getBounds, toOutput) and the driver                  *)
(* generateCrosswordLayout.                                                *)
(*                                                                         *)
(* JavaScript indices are 0-based; TLA+ sequences are 1-based.  Rows,      *)
(* columns and the loop counters attempt and i keep their 0-based          *)
(* JavaScript values; a word is a sequence of letters, so the JavaScript   *)
(* character word[i] is written word[i + 1].                               *)
(***************************************************************************)
EXTENDS Integers, Sequences, FiniteSets, Bags, TLC

(***************************************************************************)
(* Program constants.                                                      *)
(***************************************************************************)
size == 20
startRow == 2
startCol == 2
maxAttempts == 3
minPlaced == 3
minEntries == 2

(***************************************************************************)
(* Bounds of the model: the inputs of generateCrosswordLayout.             *)
(***************************************************************************)
MaxEntries == 4

\* the answers the entries are drawn from: words of 3 and 4 letters, which fit
\* the grid from the anchor column (startCol + 4 <= size)
Dictionary ==
  { <<"A", "R", "T">>, <<"T", "A", "R">>, <<"S", "K", "Y">>,
    <<"T", "R", "E", "E">>, <<"N", "E", "A", "T">>, <<"T", "A", "R", "T">> }

Null == "null"
Undefined == "undefined"
Dash == "-"
NotEnoughWords == "Not enough words to generate crossword"
NotEnoughPlaced == "Could not place enough words in crossword"

\* JavaScript values other than the letters of the grid: a record [type, val];
\* the val of a string is its sequence of characters
Num(n) == [type |-> "number", val |-> n]
Undef == [type |-> "undefined", val |-> 0]
JsNull == [type |-> "null", val |-> 0]
Bool(b) == [type |-> "boolean", val |-> b]
Str(s) == [type |-> "string", val |-> s]
Obj == [type |-> "object", val |-> 0]

\* the names of the difficulty levels
Easy == <<"e", "a", "s", "y">>
Medium == <<"m", "e", "d", "i", "u", "m">>
Hard == <<"h", "a", "r", "d">>

\* ToBoolean
Truthy(v) ==
  CASE v.type = "number" -> v.val /= 0
    [] v.type = "boolean" -> v.val
    [] v.type = "string" -> Len(v.val) > 0
    [] v.type = "object" -> TRUE
    [] OTHER -> FALSE

\* An entry list of n entries; the clue of the k-th entry is the text "k".
EntryLists ==
  UNION {{[k \in 1..n |-> [answer |-> f[k], clue |-> k]] : f \in [1..n -> Dictionary]}
         : n \in 0..MaxEntries}

Abs(x) == IF x < 0 THEN -x ELSE x
SetMin(S) == CHOOSE x \in S : \A y \in S : x <= y
SetMax(S) == CHOOSE x \in S : \A y \in S : x >= y

(***************************************************************************)
(* class CrosswordGrid                                                     *)
(***************************************************************************)
\* constructor: size x size cells, all null
NewGrid == [r \in 0..(size - 1) |-> [c \in 0..(size - 1) |-> Null]]

\* this.grid[r][c] for a row r of the grid: a column the row does not have
\* reads undefined
Cell(g, r, c) == IF c \in DOMAIN g[r] THEN g[r][c] ELSE Undefined

\* the row and column of the i-th cell (0-based) of a run
RowAt(row, direction, i) == IF direction = "across" THEN row ELSE row + i
ColAt(col, direction, i) == IF direction = "across" THEN col + i ELSE col

\* canPlace, first part: the run does not pass the far edge
InBounds(word, row, col, direction) ==
  IF direction = "across" THEN ~(col + Len(word) > size)
  ELSE ~(row + Len(word) > size)

\* NoConflict with the loop stopped after the first cell
NoConflictFirstCell(g, word, row, col, direction) ==
  \A i \in 0..(Len(word) - 1) :
    LET cell == Cell(g, RowAt(row, direction, i), ColAt(col, direction, i))
    IN  i < 1 => ~(cell /= Null /\ cell /= word[i + 1])

\* canPlace, second part: no cell of the run holds another letter
NoConflict(g, word, row, col, direction) ==
  \A i \in 0..(Len(word) - 1) :
    LET cell == Cell(g, RowAt(row, direction, i), ColAt(col, direction, i))
    IN  ~(cell /= Null /\ cell /= word[i + 1])

\* NoBadAdjacency with the test of the previous cell inverted: an empty cell
\* beside a letter is refused when the cell before it in the run holds a letter
NoBadAdjacencyPreviousFilled(g, word, row, col, direction) ==
  \A i \in 0..(Len(word) - 1) :
    LET r == RowAt(row, direction, i)
        c == ColAt(col, direction, i)
    IN  Cell(g, r, c) = Null =>
          IF direction = "across"
          THEN /\ ~(/\ row > 0
                    /\ Cell(g, r - 1, c) /= Null
                    /\ i > 0
                    /\ Cell(g, r, c - 1) /= Null)
               /\ ~(/\ row < size - 1
                    /\ Cell(g, r + 1, c) /= Null
                    /\ i > 0
                    /\ Cell(g, r, c - 1) /= Null)
          ELSE /\ ~(/\ col > 0
                    /\ Cell(g, r, c - 1) /= Null
                    /\ i > 0
                    /\ Cell(g, r - 1, c) /= Null)
               /\ ~(/\ col < size - 1
                    /\ Cell(g, r, c + 1) /= Null
                    /\ i > 0
                    /\ Cell(g, r - 1, c) /= Null)

\* canPlace, third part: the adjacency rule on the empty cells of the run
NoBadAdjacency(g, word, row, col, direction) ==
  \A i \in 0..(Len(word) - 1) :
    LET r == RowAt(row, direction, i)
        c == ColAt(col, direction, i)
    IN  Cell(g, r, c) = Null =>
          IF direction = "across"
          THEN /\ ~(/\ row > 0
                    /\ Cell(g, r - 1, c) /= Null
                    /\ i > 0
                    /\ Cell(g, r, c - 1) = Null)
               /\ ~(/\ row < size - 1
                    /\ Cell(g, r + 1, c) /= Null
                    /\ i > 0
                    /\ Cell(g, r, c - 1) = Null)
          ELSE /\ ~(/\ col > 0
                    /\ Cell(g, r, c - 1) /= Null
                    /\ i > 0
                    /\ Cell(g, r - 1, c) = Null)
               /\ ~(/\ col < size - 1
                    /\ Cell(g, r, c + 1) /= Null
                    /\ i > 0
                    /\ Cell(g, r - 1, c) = Null)

\* canPlace, fourth part: the cells before the start and after the end
EndsFree(g, word, row, col, direction) ==
  LET len == Len(word)
  IN  IF direction = "across"
      THEN /\ ~(col > 0 /\ Cell(g, row, col - 1) /= Null)
           /\ ~(col + len < size /\ Cell(g, row, col + len) /= Null)
      ELSE /\ ~(row > 0 /\ Cell(g, row - 1, col) /= Null)
           /\ ~(row + len < size /\ Cell(g, row + len, col) /= Null)

canPlace(g, word, row, col, direction) ==
  /\ InBounds(word, row, col, direction)
  /\ NoConflict(g, word, row, col, direction)
  /\ NoBadAdjacency(g, word, row, col, direction)
  /\ EndsFree(g, word, row, col, direction)

\* place, the loop: the first n cells of the run get their letters; a write
\* past the end of a row makes the row longer
RECURSIVE PlaceUpTo(_, _, _, _, _, _)
PlaceUpTo(g, word, row, col, direction, n) ==
  IF n = 0 THEN g
  ELSE LET before == PlaceUpTo(g, word, row, col, direction, n - 1)
           r == RowAt(row, direction, n - 1)
           c == ColAt(col, direction, n - 1)
       IN  IF c \in DOMAIN before[r]
           THEN [before EXCEPT ![r][c] = word[n]]
           ELSE [before EXCEPT ![r] = [x \in DOMAIN before[r] \cup {c} |->
                                         IF x = c THEN word[n] ELSE before[r][x]]]

\* PlaceLetters without the last letter of the word
PlaceLettersButLast(g, word, row, col, direction) ==
  PlaceUpTo(g, word, row, col, direction, Len(word) - 1)

PlaceLetters(g, word, row, col, direction) ==
  PlaceUpTo(g, word, row, col, direction, Len(word))

\* PlacementRecord with the number 1 for every record
PlacementRecordNumberOne(word, row, col, direction, clue, number) ==
  [answer |-> word, clue |-> clue, row |-> row, col |-> col,
   direction |-> direction, number |-> 1]

\* place, the record pushed on placedWords
PlacementRecord(word, row, col, direction, clue, number) ==
  [answer |-> word, clue |-> clue, row |-> row, col |-> col,
   direction |-> direction, number |-> number]

\* Candidate with the indices i and j exchanged in the offsets
CandidateSwapped(placed, i, j) ==
  IF placed.direction = "across"
  THEN [row |-> placed.row - j, col |-> placed.col + i, direction |-> "down"]
  ELSE [row |-> placed.row + i, col |-> placed.col - j, direction |-> "across"]

\* findIntersections, the candidate of the letter pair (i, j) of one placed word
Candidate(placed, i, j) ==
  IF placed.direction = "across"
  THEN [row |-> placed.row - i, col |-> placed.col + j, direction |-> "down"]
  ELSE [row |-> placed.row + j, col |-> placed.col - i, direction |-> "across"]

\* IntersectionsWith with the two loops nested the other way: j, then i
IntersectionsWithJFirst(g, word, placed) ==
  LET wlen == Len(word)
      n == wlen * Len(placed.answer)
      pairs == [k \in 1..n |-> [i |-> (k - 1) % wlen, j |-> (k - 1) \div wlen]]
      Accepted(p) ==
        /\ word[p.i + 1] = placed.answer[p.j + 1]
        /\ LET cand == Candidate(placed, p.i, p.j)
           IN  /\ cand.row >= 0
               /\ cand.col >= 0
               /\ canPlace(g, word, cand.row, cand.col, cand.direction)
      kept == SelectSeq(pairs, Accepted)
  IN  [k \in 1..Len(kept) |-> Candidate(placed, kept[k].i, kept[k].j)]

\* findIntersections, the inner two loops for one placed word: i, then j
IntersectionsWith(g, word, placed) ==
  LET plen == Len(placed.answer)
      n == Len(word) * plen
      pairs == [k \in 1..n |-> [i |-> (k - 1) \div plen, j |-> (k - 1) % plen]]
      Accepted(p) ==
        /\ word[p.i + 1] = placed.answer[p.j + 1]
        /\ LET cand == Candidate(placed, p.i, p.j)
           IN  /\ cand.row >= 0
               /\ cand.col >= 0
               /\ canPlace(g, word, cand.row, cand.col, cand.direction)
      kept == SelectSeq(pairs, Accepted)
  IN  [k \in 1..Len(kept) |-> Candidate(placed, kept[k].i, kept[k].j)]

RECURSIVE IntersectionsUpTo(_, _, _, _)
IntersectionsUpTo(g, pw, word, n) ==
  IF n = 0 THEN << >>
  ELSE IntersectionsUpTo(g, pw, word, n - 1) \o IntersectionsWith(g, word, pw[n])

findIntersections(g, pw, word) == IntersectionsUpTo(g, pw, word, Len(pw))

\* getBounds with minRow and minCol started at 0 instead of size
getBoundsFromZero(g) ==
  LET filled == {rc \in (0..(size - 1)) \X (0..(size - 1)) : g[rc[1]][rc[2]] /= Null}
      rows == {rc[1] : rc \in filled}
      cols == {rc[2] : rc \in filled}
  IN  [minRow |-> SetMin(rows \cup {0}), maxRow |-> SetMax(rows \cup {0}),
       minCol |-> SetMin(cols \cup {0}), maxCol |-> SetMax(cols \cup {0})]

getBounds(g) ==
  LET filled == {rc \in (0..(size - 1)) \X (0..(size - 1)) : g[rc[1]][rc[2]] /= Null}
      rows == {rc[1] : rc \in filled}
      cols == {rc[2] : rc \in filled}
  IN  [minRow |-> SetMin(rows \cup {size}), maxRow |-> SetMax(rows \cup {0}),
       minCol |-> SetMin(cols \cup {size}), maxCol |-> SetMax(cols \cup {0})]

(***************************************************************************)
(* Array.prototype.sort with a numeric comparator (a.key - b.key): a       *)
(* stable sort, ascending by key.  The sequence holds [key, val] records.  *)
(***************************************************************************)
InsertByKey(sorted, e) ==
  LET n == Cardinality({k \in 1..Len(sorted) : sorted[k].key <= e.key})
  IN  SubSeq(sorted, 1, n) \o <<e>> \o SubSeq(sorted, n + 1, Len(sorted))

RECURSIVE SortUpTo(_, _)
SortUpTo(s, n) ==
  IF n = 0 THEN << >> ELSE InsertByKey(SortUpTo(s, n - 1), s[n])

StableSort(s) ==
  LET sorted == SortUpTo(s, Len(s))
  IN  [k \in 1..Len(sorted) |-> sorted[k].val]

(***************************************************************************)
(* toOutput                                                                *)
(***************************************************************************)
\* the normalized grid: the rows minRow..maxRow, the columns minCol..maxCol
NormalizedGrid(g, bounds) ==
  [y \in 1..(bounds.maxRow - bounds.minRow + 1) |->
    [x \in 1..(bounds.maxCol - bounds.minCol + 1) |->
      LET cell == g[bounds.minRow + y - 1][bounds.minCol + x - 1]
      IN  IF cell = Null THEN Dash ELSE cell]]

\* wordStarts.has(key)
HasKey(pw, r, c) == \E k \in 1..Len(pw) : pw[k].row = r /\ pw[k].col = c

\* wordStarts.get(key)[direction] is set
HasStart(pw, r, c, direction) ==
  \E k \in 1..Len(pw) :
    pw[k].row = r /\ pw[k].col = c /\ pw[k].direction = direction

\* wordStarts.get(key)[direction]: the last record written under the key
StartOf(pw, r, c, direction) ==
  LET ks == {k \in 1..Len(pw) :
               pw[k].row = r /\ pw[k].col = c /\ pw[k].direction = direction}
  IN  pw[SetMax(ks)]

\* RowMajor with the scan loops nested the other way: columns outside, rows inside
RECURSIVE ColumnMajor(_)
ColumnMajor(S) ==
  IF S = {} THEN << >>
  ELSE LET m == CHOOSE a \in S :
                  \A b \in S : a[2] < b[2] \/ (a[2] = b[2] /\ a[1] <= b[1])
       IN  <<m>> \o ColumnMajor(S \ {m})

\* the cells of a set in reading order: top to bottom, then left to right
RECURSIVE RowMajor(_)
RowMajor(S) ==
  IF S = {} THEN << >>
  ELSE LET m == CHOOSE a \in S :
                  \A b \in S : a[1] < b[1] \/ (a[1] = b[1] /\ a[2] <= b[2])
       IN  <<m>> \o RowMajor(S \ {m})

\* the scan of the bounding box: the k-th cell that has a key gets number k
\* (cells is bound by \in so that it is computed once)
NumberedStarts(pw, bounds) ==
  LET Numbered(cells) ==
        [k \in 1..Len(cells) |-> [number |-> k, r |-> cells[k][1], c |-> cells[k][2]]]
  IN  CHOOSE starts \in
        {Numbered(cells) :
           cells \in {RowMajor({rc \in (bounds.minRow..bounds.maxRow)
                                        \X (bounds.minCol..bounds.maxCol) :
                                 HasKey(pw, rc[1], rc[2])})}} : TRUE

\* ClueEntry with x and y left 0-based
ClueEntryZeroBased(cellNumber, word, r, c, bounds) ==
  [number |-> cellNumber, clue |-> word.clue, answer |-> word.answer,
   x |-> c - bounds.minCol, y |-> r - bounds.minRow]

ClueEntry(cellNumber, word, r, c, bounds) ==
  [number |-> cellNumber, clue |-> word.clue, answer |-> word.answer,
   x |-> c - bounds.minCol + 1, y |-> r - bounds.minRow + 1]

\* the across or the down list: pushed during the scan, then sorted by number
\* (starts and pushed are bound by \in so that each is computed once)
ClueList(pw, bounds, direction) ==
  LET Pushed(starts) ==
        [k \in 1..Len(starts) |->
          ClueEntry(starts[k].number,
                    StartOf(pw, starts[k].r, starts[k].c, direction),
                    starts[k].r, starts[k].c, bounds)]
      Sorted(pushed) ==
        StableSort([k \in 1..Len(pushed) |-> [key |-> pushed[k].number, val |-> pushed[k]]])
  IN  CHOOSE list \in
        {Sorted(pushed) :
           pushed \in {Pushed(starts) :
             starts \in {SelectSeq(NumberedStarts(pw, bounds),
                                   LAMBDA s : HasStart(pw, s.r, s.c, direction))}}} : TRUE

toOutput(g, pw) ==
  LET Out(bounds) ==
        [grid |-> NormalizedGrid(g, bounds),
         width |-> bounds.maxCol - bounds.minCol + 1,
         height |-> bounds.maxRow - bounds.minRow + 1,
         across |-> ClueList(pw, bounds, "across"),
         down |-> ClueList(pw, bounds, "down")]
  IN  CHOOSE out \in {Out(bounds) : bounds \in {getBounds(g)}} : TRUE

NoOutput == [grid |-> << >>, width |-> 0, height |-> 0, across |-> << >>, down |-> << >>]

(***************************************************************************)
(* generateCrosswordLayout                                                 *)
(***************************************************************************)
VARIABLES
  entries,        \* the argument (line 330): [missing, list]
  pc,             \* "start", "anchor", "loop", "check", "returned", "thrown"
  sortedEntries,  \* line 336
  grid,           \* crossword.grid (line 126); << >> while no CrosswordGrid exists
  placedWords,    \* crossword.placedWords (line 127)
  placedCount,    \* line 348
  attempt,        \* line 351
  i,              \* line 352
  error,          \* the message of the Error thrown (lines 332, 380), "" if none
  output          \* the value returned (line 384), NoOutput if none

VARIABLES
  call            \* the last direct call of a method or function with its
                  \* arguments and what it returned; NoCall if none

VARIABLES
  req,                  \* POST /generate: req.body, [topic, wordCount, difficulty]
  handlerPc,            \* "idle", "received", "cache" (awaiting getCached),
                        \* "generator" (awaiting generateCluesAndAnswers), "done"
  normalizedTopic,      \* line 35
  normalizedDifficulty, \* line 29
  res,                  \* the response sent, NoResponse if none
  cacheEnabled,         \* process.env.CACHE_ENABLED === 'true'
  cacheFiles,           \* the names of the files in the cache directory
  cacheReads,           \* the calls of getCached made by the handler: their keys
  generatorCalls        \* the calls of generateCluesAndAnswers made by the
                        \* handler: their arguments

VARIABLES
  selectedDifficulty,   \* frontend (part_000 line 8)
  score,                \* frontend (line 9)
  hintUsage,            \* frontend (lines 10-14): [semanticTotal, letterTotal, byClue]
  hintFetch,            \* the POST /hint request of requestHint and its response:
                        \* stage "none", "sent" or "answered"; orphaned when the
                        \* clueUsage object requestHint holds is no longer in
                        \* hintUsage.byClue
  granted               \* the hints the /hint route has granted so far: a bag of
                        \* [difficulty, hintType, clueId]

driverVars == <<entries, pc, sortedEntries, grid, placedWords, placedCount, attempt, i,
                error, output>>

\* the variables generateCrosswordLayout does not touch
generateVars == <<req, handlerPc, normalizedTopic, normalizedDifficulty, res,
                  cacheEnabled, cacheFiles, cacheReads, generatorCalls>>

hintVars == <<selectedDifficulty, score, hintUsage, hintFetch, granted>>

others == <<call, generateVars, hintVars>>

vars == <<driverVars, others>>

NoCall == [op |-> "none"]

\* a CrosswordGrid has been constructed
Created == DOMAIN grid /= {}

NoResponse == [status |-> 0, error |-> "", cached |-> FALSE, puzzle |-> << >>]

\* no POST /generate request has arrived
GenerateIdle ==
  /\ req = [topic |-> Undef, wordCount |-> Undef, difficulty |-> Undef]
  /\ handlerPc = "idle"
  /\ normalizedTopic = << >>
  /\ normalizedDifficulty = << >>
  /\ res = NoResponse
  /\ cacheEnabled = FALSE
  /\ cacheFiles = {}
  /\ cacheReads = << >>
  /\ generatorCalls = << >>

NoHint == [found |-> FALSE, index |-> 0, letter |-> ""]

NoHintResponse ==
  [status |-> 0, limitReached |-> FALSE, error |-> "", type |-> "", hint |-> NoHint,
   penalty |-> 0]

NoFetch ==
  [stage |-> "none", clueId |-> "", hintType |-> "", answer |-> << >>,
   userInput |-> << >>, alreadyRevealed |-> << >>, difficulty |-> << >>,
   usage |-> [semanticForClue |-> 0, semanticTotal |-> 0, letterForClue |-> 0,
              letterTotal |-> 0],
   response |-> NoHintResponse,
   orphaned |-> FALSE]

\* the page is loaded and no hint has been asked for
HintsIdle ==
  /\ selectedDifficulty = Medium
  /\ score = 100
  /\ hintUsage = [semanticTotal |-> 0, letterTotal |-> 0, byClue |-> << >>]
  /\ hintFetch = NoFetch
  /\ granted = EmptyBag

\* nothing outside generateCrosswordLayout has happened
OthersIdle == call = NoCall /\ GenerateIdle /\ HintsIdle

\* generateCrosswordLayout is entered: nothing constructed yet
DriverStart ==
  /\ pc = "start"
  /\ sortedEntries = << >>
  /\ grid = << >>
  /\ placedWords = << >>
  /\ placedCount = 0
  /\ attempt = 0
  /\ i = 0
  /\ error = ""
  /\ output = NoOutput

Init ==
  /\ entries \in {[missing |-> TRUE, list |-> << >>]}
                 \cup {[missing |-> FALSE, list |-> l] : l \in EntryLists}
  /\ DriverStart
  /\ OthersIdle

\* TooFewEntries with the threshold one lower
TooFewEntriesBelowOne(e) == e.missing \/ Len(e.list) < minEntries - 1

\* !entries || entries.length < 2
TooFewEntries(e) == e.missing \/ Len(e.list) < minEntries

\* SortByLength with entries of equal length in the reverse of the input order
SortByLengthLatestFirst(list) ==
  StableSort([k \in 1..Len(list) |->
               [key |-> 0 - Len(list[Len(list) + 1 - k].answer),
                val |-> list[Len(list) + 1 - k]]])

\* [...entries].sort((a, b) => b.answer.length - a.answer.length)
SortByLength(list) ==
  StableSort([k \in 1..Len(list) |-> [key |-> 0 - Len(list[k].answer), val |-> list[k]]])

\* the input check throws
RejectInput ==
  /\ pc = "start"
  /\ TooFewEntries(entries)
  /\ pc' = "thrown"
  /\ error' = NotEnoughWords
  /\ UNCHANGED <<entries, sortedEntries, grid, placedWords, placedCount, attempt, i,
                 output>>
  /\ UNCHANGED others

\* the entries are sorted and the CrosswordGrid is constructed
Construct ==
  /\ pc = "start"
  /\ ~TooFewEntries(entries)
  /\ sortedEntries' = SortByLength(entries.list)
  /\ grid' = NewGrid
  /\ placedWords' = << >>
  /\ pc' = "anchor"
  /\ UNCHANGED <<entries, placedCount, attempt, i, error, output>>
  /\ UNCHANGED others

\* the first word is placed across at (startRow, startCol) with number 1
PlaceFirst ==
  /\ pc = "anchor"
  /\ LET firstWord == sortedEntries[1]
     IN  /\ grid' = PlaceLetters(grid, firstWord.answer, startRow, startCol, "across")
         /\ placedWords' = Append(placedWords,
                PlacementRecord(firstWord.answer, startRow, startCol, "across",
                                firstWord.clue, 1))
  /\ placedCount' = 1
  /\ attempt' = 0
  /\ i' = 1
  /\ pc' = IF 1 < Len(sortedEntries) THEN "loop" ELSE "check"
  /\ UNCHANGED <<entries, sortedEntries, error, output>>
  /\ UNCHANGED others

\* NextIteration with the loop left at the end of the first pass
NextIterationOnePass ==
  IF i + 1 < Len(sortedEntries)
  THEN /\ i' = i + 1
       /\ attempt' = attempt
       /\ pc' = "loop"
  ELSE /\ i' = 1
       /\ attempt' = maxAttempts
       /\ pc' = "check"

\* NextIteration with attempt left as it is at the end of a pass
NextIterationSamePass ==
  IF i + 1 < Len(sortedEntries)
  THEN /\ i' = i + 1
       /\ attempt' = attempt
       /\ pc' = "loop"
  ELSE /\ i' = 1
       /\ attempt' = attempt
       /\ pc' = IF attempt + 1 < maxAttempts THEN "loop" ELSE "check"

\* the loop control: i++, and at the end of a pass attempt++ and i = 1
NextIteration ==
  IF i + 1 < Len(sortedEntries)
  THEN /\ i' = i + 1
       /\ attempt' = attempt
       /\ pc' = "loop"
  ELSE /\ i' = 1
       /\ attempt' = attempt + 1
       /\ pc' = IF attempt + 1 < maxAttempts THEN "loop" ELSE "check"

\* AlreadyPlaced with the clues in the place of the answers
AlreadyPlacedByClue(pw, entry) == \E k \in 1..Len(pw) : pw[k].clue = entry.clue

\* AlreadyPlaced with the length of the answers in the place of the answers
AlreadyPlacedByLength(pw, entry) ==
  \E k \in 1..Len(pw) : Len(pw[k].answer) = Len(entry.answer)

\* crossword.placedWords.some(w => w.answer === entry.answer)
AlreadyPlaced(pw, entry) == \E k \in 1..Len(pw) : pw[k].answer = entry.answer

\* the distance the comparator sorts by, doubled to stay in the integers:
\* centerRow = (minRow + maxRow) / 2, centerCol = (minCol + maxCol) / 2
Distance2(cand, bounds) ==
  Abs(2 * cand.row - (bounds.minRow + bounds.maxRow))
    + Abs(2 * cand.col - (bounds.minCol + bounds.maxCol))

\* Best with the last of the candidates at the smallest distance
BestLastOnTies(intersections, bounds) ==
  StableSort([k \in 1..Len(intersections) |->
               [key |-> Distance2(intersections[Len(intersections) + 1 - k], bounds),
                val |-> intersections[Len(intersections) + 1 - k]]])[1]

\* intersections.sort(...)[0]
Best(intersections, bounds) ==
  StableSort([k \in 1..Len(intersections) |->
               [key |-> Distance2(intersections[k], bounds), val |-> intersections[k]]])[1]

\* the entry is already placed: continue
SkipPlaced ==
  /\ pc = "loop"
  /\ AlreadyPlaced(placedWords, sortedEntries[i + 1])
  /\ NextIteration
  /\ UNCHANGED <<entries, sortedEntries, grid, placedWords, placedCount, error, output>>
  /\ UNCHANGED others

\* the entry has no intersection in this pass
NoIntersection ==
  /\ pc = "loop"
  /\ ~AlreadyPlaced(placedWords, sortedEntries[i + 1])
  /\ findIntersections(grid, placedWords, sortedEntries[i + 1].answer) = << >>
  /\ NextIteration
  /\ UNCHANGED <<entries, sortedEntries, grid, placedWords, placedCount, error, output>>
  /\ UNCHANGED others

\* the entry is placed at its best intersection (the locals entry,
\* intersections, bounds and best are bound by \E so that each is computed once)
PlaceBest ==
  /\ pc = "loop"
  /\ \E entry \in {sortedEntries[i + 1]} :
     \E intersections \in {findIntersections(grid, placedWords, entry.answer)} :
       /\ ~AlreadyPlaced(placedWords, entry)
       /\ Len(intersections) > 0
       /\ \E bounds \in {getBounds(grid)} :
          \E best \in {Best(intersections, bounds)} :
            /\ grid' = PlaceLetters(grid, entry.answer, best.row, best.col,
                                    best.direction)
            /\ placedWords' = Append(placedWords,
                   PlacementRecord(entry.answer, best.row, best.col,
                                   best.direction, entry.clue, placedCount + 1))
  /\ placedCount' = placedCount + 1
  /\ NextIteration
  /\ UNCHANGED <<entries, sortedEntries, error, output>>
  /\ UNCHANGED others

\* TooFewPlaced with the count of the entries in the place of the placed words
TooFewPlacedOfEntries(pw) == Len(sortedEntries) < minPlaced - 1

\* TooFewPlaced with the threshold one lower
TooFewPlacedBelowTwo(pw) == Len(pw) < minPlaced - 1

\* crossword.placedWords.length < 3
TooFewPlaced(pw) == Len(pw) < minPlaced

\* fewer than three words are placed: throw
ThrowUnderflow ==
  /\ pc = "check"
  /\ TooFewPlaced(placedWords)
  /\ pc' = "thrown"
  /\ error' = NotEnoughPlaced
  /\ UNCHANGED <<entries, sortedEntries, grid, placedWords, placedCount, attempt, i,
                 output>>
  /\ UNCHANGED others

\* return crossword.toOutput()
ReturnOutput ==
  /\ pc = "check"
  /\ ~TooFewPlaced(placedWords)
  /\ output' = toOutput(grid, placedWords)
  /\ pc' = "returned"
  /\ UNCHANGED <<entries, sortedEntries, grid, placedWords, placedCount, attempt, i,
                 error>>
  /\ UNCHANGED others

Next ==
  \/ RejectInput
  \/ Construct
  \/ PlaceFirst
  \/ SkipPlaced
  \/ NoIntersection
  \/ PlaceBest
  \/ ThrowUnderflow
  \/ ReturnOutput

Spec == Init /\ [][Next]_vars

(***************************************************************************)
(* generateCrosswordLayout is synchronous code: once entered it runs on    *)
(* until it returns or throws, so a step that can be taken is taken.       *)
(***************************************************************************)
MaxFairEntries == 3

FairEntryLists == {l \in EntryLists : Len(l) <= MaxFairEntries}

InitFair ==
  /\ entries \in {[missing |-> TRUE, list |-> << >>]}
                 \cup {[missing |-> FALSE, list |-> l] : l \in FairEntryLists}
  /\ DriverStart
  /\ OthersIdle

FairSpec == InitFair /\ [][Next]_vars /\ WF_vars(Next)

(***************************************************************************)
(* generateCrosswordLayout on entry lists that hold an answer of 20        *)
(* letters: from the anchor column its run ends at column 21.              *)
(***************************************************************************)
MaxLongEntries == 3

LongWord ==
  <<"C", "O", "U", "N", "T", "E", "R", "R", "E", "V",
    "O", "L", "U", "T", "I", "O", "N", "A", "R", "Y">>

LongDictionary ==
  { LongWord, <<"T", "A", "R">>, <<"S", "K", "Y">>, <<"T", "R", "E", "E">> }

LongEntryLists ==
  UNION {{[k \in 1..n |-> [answer |-> f[k], clue |-> k]] : f \in [1..n -> LongDictionary]}
         : n \in 0..MaxLongEntries}

InitLong ==
  /\ entries \in {[missing |-> TRUE, list |-> << >>]}
                 \cup {[missing |-> FALSE, list |-> l] : l \in LongEntryLists}
  /\ DriverStart
  /\ OthersIdle

SpecLong == InitLong /\ [][Next]_vars

(***************************************************************************)
(* generateCrosswordLayout on entry lists in which an answer crosses no    *)
(* answer but one that is placed after its own first attempt: SKY crosses  *)
(* TRY only, TRY crosses TREE, BOX crosses nothing.                        *)
(***************************************************************************)
MaxRetryEntries == 4

RetryDictionary ==
  { <<"T", "R", "E", "E">>, <<"S", "K", "Y">>, <<"T", "R", "Y">>, <<"B", "O", "X">> }

RetryEntryLists ==
  UNION {{[k \in 1..n |-> [answer |-> f[k], clue |-> k]] : f \in [1..n -> RetryDictionary]}
         : n \in 0..MaxRetryEntries}

InitRetry ==
  /\ entries \in {[missing |-> TRUE, list |-> << >>]}
                 \cup {[missing |-> FALSE, list |-> l] : l \in RetryEntryLists}
  /\ DriverStart
  /\ OthersIdle

SpecRetry == InitRetry /\ [][Next]_vars

(***************************************************************************)
(* generateCrosswordLayout on entry lists whose answers form a chain: each *)
(* of TREE, TAN, NOD, DIG, GUM shares a letter with the next and with no   *)
(* other.  No answer is in a list twice.                                   *)
(***************************************************************************)
MaxChainEntries == 5

ChainDictionary ==
  { <<"T", "R", "E", "E">>, <<"T", "A", "N">>, <<"N", "O", "D">>, <<"D", "I", "G">>,
    <<"G", "U", "M">> }

ChainEntryLists ==
  UNION {{[k \in 1..n |-> [answer |-> f[k], clue |-> k]] :
            f \in {g \in [1..n -> ChainDictionary] :
                     \A k, m \in 1..n : g[k] = g[m] => k = m}}
         : n \in 0..MaxChainEntries}

InitChain ==
  /\ entries \in {[missing |-> TRUE, list |-> << >>]}
                 \cup {[missing |-> FALSE, list |-> l] : l \in ChainEntryLists}
  /\ DriverStart
  /\ OthersIdle

SpecChain == InitChain /\ [][Next]_vars

(***************************************************************************)
(* Direct calls of the methods canPlace and findIntersections on the       *)
(* CrosswordGrid of a run, with arguments the driver itself need not pass. *)
(***************************************************************************)
MaxCallEntries == 3

CallDictionary ==
  { <<"A", "R", "T">>, <<"T", "A", "R">>, <<"T", "R", "E", "E">> }

CallEntryLists ==
  UNION {{[k \in 1..n |-> [answer |-> f[k], clue |-> k]] : f \in [1..n -> CallDictionary]}
         : n \in 0..MaxCallEntries}

\* the rows and columns passed to canPlace: around the anchor and beyond each edge
CallCoords == (-1..6) \cup {size - 2, size - 1, size}

\* canPlace throws a TypeError: the run passes the bounds check and the loop
\* over its cells comes to a row r the grid does not have, where this.grid[r]
\* is undefined and this.grid[r][c] cannot be read
canPlaceThrows(g, word, row, col, direction) ==
  /\ InBounds(word, row, col, direction)
  /\ \E n \in 0..(Len(word) - 1) :
       /\ RowAt(row, direction, n) \notin DOMAIN g
       /\ \A k \in 0..(n - 1) :
            /\ RowAt(row, direction, k) \in DOMAIN g
            /\ LET cell == Cell(g, RowAt(row, direction, k), ColAt(col, direction, k))
               IN  ~(cell /= Null /\ cell /= word[k + 1])

\* what a call of canPlace comes to: it threw, or the value it returned
canPlaceOutcome(g, word, row, col, direction) ==
  IF canPlaceThrows(g, word, row, col, direction)
  THEN [threw |-> TRUE, value |-> FALSE]
  ELSE [threw |-> FALSE, value |-> canPlace(g, word, row, col, direction)]

InitCalls ==
  /\ entries \in {[missing |-> FALSE, list |-> l] : l \in CallEntryLists}
  /\ DriverStart
  /\ OthersIdle

\* crossword.canPlace(word, row, col, direction)
CallCanPlace ==
  /\ Created
  /\ call = NoCall
  /\ \E word \in CallDictionary, row \in CallCoords, col \in CallCoords,
        direction \in {"across", "down"} :
       \E outcome \in {canPlaceOutcome(grid, word, row, col, direction)} :
         call' = [op |-> "canPlace", word |-> word, row |-> row, col |-> col,
                  direction |-> direction, threw |-> outcome.threw,
                  value |-> outcome.value]
  /\ UNCHANGED <<driverVars, generateVars, hintVars>>

\* CallFindIntersections with the word placed at the first candidate found
CallFindIntersectionsPlacing ==
  /\ Created
  /\ call = NoCall
  /\ \E word \in CallDictionary :
     \E found \in {findIntersections(grid, placedWords, word)} :
       /\ call' = [op |-> "findIntersections", word |-> word, value |-> found]
       /\ placedWords' =
            IF found = << >> THEN placedWords
            ELSE Append(placedWords,
                        PlacementRecord(word, found[1].row, found[1].col,
                                        found[1].direction, 0, placedCount + 1))
  /\ UNCHANGED <<entries, pc, sortedEntries, grid, placedCount, attempt, i, error, output>>
  /\ UNCHANGED <<generateVars, hintVars>>

\* crossword.findIntersections(word)
CallFindIntersections ==
  /\ Created
  /\ call = NoCall
  /\ \E word \in CallDictionary :
       call' = [op |-> "findIntersections", word |-> word,
                value |-> findIntersections(grid, placedWords, word)]
  /\ UNCHANGED <<driverVars, generateVars, hintVars>>

\* the run goes on while no direct call has been made
NextCalls ==
  \/ call = NoCall /\ Next
  \/ CallCanPlace
  \/ CallFindIntersections

SpecCalls == InitCalls /\ [][NextCalls]_vars

\* generateCrosswordLayout is not called
DriverUnused ==
  /\ entries = [missing |-> TRUE, list |-> << >>]
  /\ DriverStart

(***************************************************************************)
(* Backend, services/layoutService.js: toCrosswordJsFormat(layout, topic). *)
(* The title is a sequence of characters.                                  *)
(***************************************************************************)
MaxWords == 3

\* the answer and the clue of the k-th word of a layout
LayoutAnswers ==
  << <<"S", "E", "A">>, <<"T", "E", "A">>, <<"A", "N", "T">>, <<"N", "E", "T">> >>

\* a word the layout generator has placed, or one it has not: generateLayout
\* (lines 281-291) copies every word of layout.result, turns every orientation
\* but 'across' into 'down', and expects words without startx among them
PlacedWordsAt(k) ==
  {[id |-> k, answer |-> LayoutAnswers[k], clue |-> k,
    startX |-> Num(xy[1]), startY |-> Num(xy[2]), direction |-> d,
    position |-> Num(n)] :
     xy \in {<<1, 2>>, <<2, 1>>}, d \in {"across", "down"}, n \in 1..MaxWords}

UnplacedWordAt(k) ==
  [id |-> k, answer |-> LayoutAnswers[k], clue |-> k,
   startX |-> Undef, startY |-> Undef, direction |-> "down", position |-> Undef]

LayoutWordLists ==
  UNION {{w \in [1..n -> UNION {PlacedWordsAt(k) \cup {UnplacedWordAt(k)} : k \in 1..n}] :
            \A k \in 1..n : w[k].id = k}
         : n \in 0..MaxWords}

LayoutShapes ==
  { [width |-> 3, height |-> 2,
     grid |-> << <<"S", "E", "A">>, <<"-", "-", "T">> >>],
    [width |-> 2, height |-> 3,
     grid |-> << <<"S", "-">>, <<"E", "-">>, <<"A", "T">> >>] }

Layouts ==
  {[width |-> sh.width, height |-> sh.height, grid |-> sh.grid, words |-> w] :
     sh \in LayoutShapes, w \in LayoutWordLists}

Topics ==
  { <<"S", "e", "a">>, <<"T", "e", "s", "t", " ", "T", "o", "p", "i", "c">> }

\* new Date().toISOString().split('T')[0]
Dates == {"2025-01-01"}

\* the comparator (a, b) => a.number - b.number as sort sees it: a difference
\* that is NaN counts as +0
CompareNumber(a, b) ==
  IF a.number.type = "number" /\ b.number.type = "number"
  THEN a.number.val - b.number.val
  ELSE 0

\* the comparator orders the elements of the list consistently
ConsistentOn(list) ==
  \A a, b, c \in {list[k] : k \in 1..Len(list)} :
    (CompareNumber(a, b) <= 0 /\ CompareNumber(b, c) <= 0) => CompareNumber(a, c) <= 0

\* the stable sort with the comparator, of the first n elements
RECURSIVE SortByNumberUpTo(_, _)
SortByNumberUpTo(list, n) ==
  IF n = 0 THEN << >>
  ELSE LET sorted == SortByNumberUpTo(list, n - 1)
           m == Cardinality({k \in 1..Len(sorted) : CompareNumber(sorted[k], list[n]) <= 0})
       IN  SubSeq(sorted, 1, m) \o <<list[n]>> \o SubSeq(sorted, m + 1, Len(sorted))

\* the orders of the elements of a list
Reorderings(list) ==
  {[k \in 1..Len(list) |-> list[f[k]]] :
     f \in {g \in [1..Len(list) -> 1..Len(list)] :
              \A a, b \in 1..Len(list) : g[a] = g[b] => a = b}}

\* list.sort((a, b) => a.number - b.number): the stable ascending order; where
\* the comparator is not consistent the order is implementation-defined
NumberSort(list) ==
  IF ConsistentOn(list) THEN {SortByNumberUpTo(list, Len(list))}
  ELSE Reorderings(list)

\* the clueEntry of a word
clueEntry(word) ==
  [number |-> word.position, clue |-> word.clue, answer |-> word.answer,
   x |-> word.startX, y |-> word.startY]

\* acrossClues and downClues after the forEach
acrossClues(layout) ==
  LET across == SelectSeq(layout.words, LAMBDA w : w.direction = "across")
  IN  [k \in 1..Len(across) |-> clueEntry(across[k])]

downClues(layout) ==
  LET down == SelectSeq(layout.words, LAMBDA w : ~(w.direction = "across"))
  IN  [k \in 1..Len(down) |-> clueEntry(down[k])]

\* the object returned, with the two lists as sort has left them
toCrosswordJsFormat(layout, topic, today, across, down) ==
  [meta |-> [title |-> topic \o <<" ", "C", "r", "o", "s", "s", "w", "o", "r", "d">>,
             author |-> "Auto Generator", date |-> today],
   dimensions |-> [width |-> layout.width, height |-> layout.height],
   grid |-> layout.grid,
   clues |-> [across |-> across, down |-> down]]

InitFormat ==
  /\ DriverUnused
  /\ GenerateIdle
  /\ HintsIdle
  /\ call \in {[op |-> "toCrosswordJsFormat", layout |-> l, topic |-> t, returned |-> FALSE]
                 : l \in Layouts, t \in Topics}

\* toCrosswordJsFormat(layout, topic) runs and returns
ReturnFormat ==
  /\ call.op = "toCrosswordJsFormat"
  /\ ~call.returned
  /\ \E today \in Dates :
     \E across \in NumberSort(acrossClues(call.layout)) :
     \E down \in NumberSort(downClues(call.layout)) :
       call' = [op |-> "toCrosswordJsFormat", layout |-> call.layout,
                topic |-> call.topic, returned |-> TRUE,
                value |-> toCrosswordJsFormat(call.layout, call.topic, today,
                                              across, down)]
  /\ UNCHANGED <<driverVars, generateVars, hintVars>>

NextFormat == ReturnFormat

SpecFormat == InitFormat /\ [][NextFormat]_vars

(***************************************************************************)
(* Backend, routes/crosswordRoutes.js: the handler of POST /generate, with *)
(* getCached and setCache of services/cacheService.js.  One request is     *)
(* handled; the handler's steps are the stretches between its awaits.      *)
(***************************************************************************)
MinTopicLength == 2
MaxTopicLength == 100
DefaultWordCount == 10
MinWordCount == 5
MaxWordCount == 20
MinGenerated == 3

UpperLetters ==
  <<"A", "B", "C", "D", "E", "F", "G", "H", "I", "J", "K", "L", "M",
    "N", "O", "P", "Q", "R", "S", "T", "U", "V", "W", "X", "Y", "Z">>

LowerLetters ==
  <<"a", "b", "c", "d", "e", "f", "g", "h", "i", "j", "k", "l", "m",
    "n", "o", "p", "q", "r", "s", "t", "u", "v", "w", "x", "y", "z">>

Whitespace == {" ", "\t", "\n"}

\* String.prototype.toLowerCase
ToLowerCase(s) ==
  [k \in 1..Len(s) |->
    IF \E n \in 1..26 : UpperLetters[n] = s[k]
    THEN LowerLetters[CHOOSE n \in 1..26 : UpperLetters[n] = s[k]]
    ELSE s[k]]

\* String.prototype.trim
Trim(s) ==
  LET solid == {k \in 1..Len(s) : s[k] \notin Whitespace}
  IN  IF solid = {} THEN << >> ELSE SubSeq(s, SetMin(solid), SetMax(solid))

\* s.replace(/\s+/g, '-')
Dashed(s) ==
  LET heads == SelectSeq([k \in 1..Len(s) |-> k],
                         LAMBDA k : s[k] \notin Whitespace \/ k = 1
                                      \/ s[k - 1] \notin Whitespace)
  IN  [m \in 1..Len(heads) |-> IF s[heads[m]] \in Whitespace THEN "-" ELSE s[heads[m]]]

\* cacheService.getCacheKey without the hash, which the normalized key determines
getCacheKey(key) == Dashed(Trim(ToLowerCase(key)))

validDifficulties == {Easy, Medium, Hard}

HINT_LIMITS ==
  [d \in validDifficulties |->
    CASE d = Easy ->
           [semanticPerClue |-> -1, letterPerClue |-> 2, semanticPerPuzzle |-> -1,
            letterPerPuzzle |-> -1, penalty |-> 0]
      [] d = Medium ->
           [semanticPerClue |-> 1, letterPerClue |-> 1, semanticPerPuzzle |-> -1,
            letterPerPuzzle |-> -1, penalty |-> 5]
      [] d = Hard ->
           [semanticPerClue |-> 1, letterPerClue |-> 1, semanticPerPuzzle |-> 1,
            letterPerPuzzle |-> 1, penalty |-> 15]]

\* a string of n characters c
Repeat(c, n) == [k \in 1..n |-> c]

Sea == <<"S", "e", "a">>

\* req.body.topic
TopicValues ==
  { Undef, JsNull, Num(7), Obj,
    Str(<< >>), Str(<<"A">>), Str(<<" ", "A", " ">>), Str(<<" ", " ", " ">>),
    Str(Sea), Str(<<" ">> \o Sea \o <<" ", " ">>),
    Str(<<"T", "e", "s", "t", " ", "T", "o", "p", "i", "c">>),
    Str(Repeat("a", MaxTopicLength)),
    Str(<<" ">> \o Repeat("a", MaxTopicLength) \o <<" ">>),
    Str(Repeat("a", MaxTopicLength + 1)) }

\* req.body.difficulty
DifficultyValues ==
  { Undef, JsNull, Num(0), Num(5), Bool(TRUE), Obj,
    Str(<< >>), Str(Easy), Str(Medium), Str(Hard),
    Str(<<"E", "A", "S", "Y">>), Str(<<"H", "a", "r", "d">>),
    Str(<<"e", "x", "p", "e", "r", "t">>) }

\* req.body.wordCount
WordCountValues == {Undef, Num(3), Num(12), Num(25)}

\* the files the cache directory may hold when the request arrives
CachedAtStart ==
  {getCacheKey(Sea \o <<":">> \o Easy), getCacheKey(Sea \o <<":">> \o Medium)}

\* what generateCluesAndAnswers may come to: the number of valid entries it
\* returns, or an Error of which only what the catch block looks for is kept
GeneratedCounts == {0, 2, 3, 5}

GeneratorErrors == {[apiKey |-> a, json |-> j] : a, j \in BOOLEAN}

InitGenerate ==
  /\ DriverUnused
  /\ call = NoCall
  /\ HintsIdle
  /\ req \in [topic : TopicValues, wordCount : WordCountValues,
              difficulty : DifficultyValues]
  /\ handlerPc = "received"
  /\ normalizedTopic = << >>
  /\ normalizedDifficulty = << >>
  /\ res = NoResponse
  /\ cacheEnabled \in BOOLEAN
  /\ cacheFiles \in SUBSET CachedAtStart
  /\ cacheReads = << >>
  /\ generatorCalls = << >>

\* res.status(status).json({ error }), and the handler is left
SendError(status, message) ==
  /\ res' = [status |-> status, error |-> message, cached |-> FALSE, puzzle |-> << >>]
  /\ handlerPc' = "done"

\* the catch block (lines 80-89)
CatchError(e) ==
  IF e.apiKey THEN SendError(500, "LLM API configuration error")
  ELSE IF e.json THEN SendError(502, "LLM returned invalid response")
  ELSE SendError(500, "Failed to generate crossword puzzle")

\* the error of calling toLowerCase on a value that has no such method
TypeError == [apiKey |-> FALSE, json |-> FALSE]

\* lines 19-43: the checks of the body, up to the call of getCached
ValidateGenerate ==
  /\ handlerPc = "received"
  /\ \E topic \in {req.topic} :
     \E difficulty \in {IF req.difficulty.type = "undefined" THEN Str(Medium)
                        ELSE req.difficulty} :
     \E lowered \in {IF ~Truthy(difficulty) THEN Medium
                     ELSE IF difficulty.type = "string" THEN ToLowerCase(difficulty.val)
                     ELSE << >>} :
     \E trimmed \in {IF topic.type = "string" THEN Trim(topic.val) ELSE << >>} :
       IF ~Truthy(topic) \/ topic.type /= "string"
       THEN /\ SendError(400, "Topic is required and must be a string")
            /\ UNCHANGED <<normalizedTopic, normalizedDifficulty, cacheReads>>
       ELSE IF Truthy(difficulty) /\ difficulty.type /= "string"
       THEN /\ CatchError(TypeError)
            /\ UNCHANGED <<normalizedTopic, normalizedDifficulty, cacheReads>>
       ELSE IF lowered \notin validDifficulties
       THEN /\ SendError(400, "Difficulty must be easy, medium, or hard")
            /\ normalizedDifficulty' = lowered
            /\ UNCHANGED <<normalizedTopic, cacheReads>>
       ELSE IF Len(trimmed) < MinTopicLength \/ Len(trimmed) > MaxTopicLength
       THEN /\ SendError(400, "Topic must be between 2 and 100 characters")
            /\ normalizedDifficulty' = lowered
            /\ normalizedTopic' = trimmed
            /\ UNCHANGED cacheReads
       ELSE /\ normalizedDifficulty' = lowered
            /\ normalizedTopic' = trimmed
            /\ cacheReads' = Append(cacheReads, trimmed \o <<":">> \o lowered)
            /\ handlerPc' = "cache"
            /\ UNCHANGED res
  /\ UNCHANGED <<req, cacheEnabled, cacheFiles, generatorCalls>>
  /\ UNCHANGED <<driverVars, call, hintVars>>

\* `${normalizedTopic}:${normalizedDifficulty}`
cacheKey == normalizedTopic \o <<":">> \o normalizedDifficulty

\* the puzzle of a topic and a difficulty, of which the layout is left out
Puzzle(topic, level) ==
  <<[topic |-> topic, level |-> level, hintLimits |-> HINT_LIMITS[level]]>>

\* getCached returns the puzzle of the file: it is sent with cached: true
CacheHit ==
  /\ handlerPc = "cache"
  /\ cacheEnabled
  /\ getCacheKey(cacheKey) \in cacheFiles
  /\ res' = [status |-> 200, error |-> "", cached |-> TRUE,
             puzzle |-> Puzzle(normalizedTopic, normalizedDifficulty)]
  /\ handlerPc' = "done"
  /\ UNCHANGED <<req, normalizedTopic, normalizedDifficulty, cacheEnabled, cacheFiles,
                 cacheReads, generatorCalls>>
  /\ UNCHANGED <<driverVars, call, hintVars>>

\* Math.min(Math.max(wordCount, 5), 20), the count the generator is asked for
askedWordCount ==
  LET wordCount == IF req.wordCount.type = "undefined" THEN DefaultWordCount
                   ELSE req.wordCount.val
      atLeast == IF wordCount > MinWordCount THEN wordCount ELSE MinWordCount
  IN  IF atLeast < MaxWordCount THEN atLeast ELSE MaxWordCount

\* getCached returns null (the cache is off, the file is missing or cannot be
\* read), or finds the file expired and deletes it; generateCluesAndAnswers is
\* called
CacheMiss ==
  /\ handlerPc = "cache"
  /\ \/ UNCHANGED cacheFiles
     \/ /\ cacheEnabled
        /\ getCacheKey(cacheKey) \in cacheFiles
        /\ cacheFiles' = cacheFiles \ {getCacheKey(cacheKey)}
  /\ generatorCalls' = Append(generatorCalls,
                              [topic |-> normalizedTopic, wordCount |-> askedWordCount,
                               difficulty |-> normalizedDifficulty])
  /\ handlerPc' = "generator"
  /\ UNCHANGED <<req, normalizedTopic, normalizedDifficulty, res, cacheEnabled,
                 cacheReads>>
  /\ UNCHANGED <<driverVars, call, hintVars>>

\* generateCluesAndAnswers throws
GeneratorThrows ==
  /\ handlerPc = "generator"
  /\ \E e \in GeneratorErrors : CatchError(e)
  /\ UNCHANGED <<req, normalizedTopic, normalizedDifficulty, cacheEnabled, cacheFiles,
                 cacheReads, generatorCalls>>
  /\ UNCHANGED <<driverVars, call, hintVars>>

\* generateCluesAndAnswers returns its entries: too few, or the puzzle is laid
\* out, stored in the cache and sent with cached: false
GeneratorReturns ==
  /\ handlerPc = "generator"
  /\ \E n \in GeneratedCounts :
       IF n < MinGenerated
       THEN /\ SendError(422, "Could not generate enough valid words for the crossword")
            /\ UNCHANGED cacheFiles
       ELSE /\ res' = [status |-> 200, error |-> "", cached |-> FALSE,
                       puzzle |-> Puzzle(normalizedTopic, normalizedDifficulty)]
            /\ handlerPc' = "done"
            /\ cacheFiles' = IF cacheEnabled
                             THEN cacheFiles \cup {getCacheKey(cacheKey)}
                             ELSE cacheFiles
  /\ UNCHANGED <<req, normalizedTopic, normalizedDifficulty, cacheEnabled, cacheReads,
                 generatorCalls>>
  /\ UNCHANGED <<driverVars, call, hintVars>>

NextGenerate ==
  \/ ValidateGenerate
  \/ CacheHit
  \/ CacheMiss
  \/ GeneratorThrows
  \/ GeneratorReturns

SpecGenerate == InitGenerate /\ [][NextGenerate]_vars

(***************************************************************************)
(* Hints: requestHint of the frontend (part_000), the handler of           *)
(* POST /hint (routes/crosswordRoutes.js) and checkHintAllowed and         *)
(* getStrategicLetterReveal (services/geminiService.js).  The hint         *)
(* requests of a puzzle are made one after the other.                      *)
(***************************************************************************)
MaxHints == 3

\* the clues of the puzzle on the page: clueId is `${direction}-${clue.number}`
ClueIds == {"across-1", "down-2"}

AnswerOf(clueId) ==
  IF clueId = "across-1" THEN <<"S", "E", "A">> ELSE <<"T", "R", "E", "E">>

HintTypes == {"semantic", "letter"}

\* String.prototype.toUpperCase
ToUpperCase(s) ==
  [k \in 1..Len(s) |->
    IF \E n \in 1..26 : LowerLetters[n] = s[k]
    THEN UpperLetters[CHOOSE n \in 1..26 : LowerLetters[n] = s[k]]
    ELSE s[k]]

\* s.padEnd(n, ' ')
PadEnd(s, n) == [k \in 1..(IF Len(s) < n THEN n ELSE Len(s)) |->
                   IF k <= Len(s) THEN s[k] ELSE " "]

\* getUserInputForClue: what the cells of the clue hold, one character a cell;
\* the solver has typed nothing, or the answer in small letters
UserInputs(clueId) ==
  {[k \in 1..Len(AnswerOf(clueId)) |-> " "], ToLowerCase(AnswerOf(clueId))}

\* the usage object of a clue that has none yet
NewClueUsage == [semantic |-> 0, letter |-> 0, revealedIndices |-> << >>]

\* checkHintAllowed with limits that are passed only when the usage is above them
checkHintAllowedAbove(hintType, difficulty, usage) ==
  LET limits == IF difficulty \in DOMAIN HINT_LIMITS THEN HINT_LIMITS[difficulty]
                ELSE HINT_LIMITS[Medium]
  IN  IF hintType = "semantic"
           /\ limits.semanticPerClue /= -1
           /\ usage.semanticForClue > limits.semanticPerClue
      THEN [allowed |-> FALSE, reason |-> "Clue hint limit reached for this clue",
            penalty |-> 0]
      ELSE IF hintType = "semantic"
           /\ limits.semanticPerPuzzle /= -1
           /\ usage.semanticTotal > limits.semanticPerPuzzle
      THEN [allowed |-> FALSE, reason |-> "Clue hint limit reached for this puzzle",
            penalty |-> 0]
      ELSE IF hintType = "letter"
           /\ limits.letterPerClue /= -1
           /\ usage.letterForClue > limits.letterPerClue
      THEN [allowed |-> FALSE, reason |-> "Letter reveal limit reached for this clue",
            penalty |-> 0]
      ELSE IF hintType = "letter"
           /\ limits.letterPerPuzzle /= -1
           /\ usage.letterTotal > limits.letterPerPuzzle
      THEN [allowed |-> FALSE, reason |-> "Letter reveal limit reached for this puzzle",
            penalty |-> 0]
      ELSE [allowed |-> TRUE, reason |-> "", penalty |-> limits.penalty]

checkHintAllowed(hintType, difficulty, usage) ==
  LET limits == IF difficulty \in DOMAIN HINT_LIMITS THEN HINT_LIMITS[difficulty]
                ELSE HINT_LIMITS[Medium]
  IN  IF hintType = "semantic"
           /\ limits.semanticPerClue /= -1
           /\ usage.semanticForClue >= limits.semanticPerClue
      THEN [allowed |-> FALSE, reason |-> "Clue hint limit reached for this clue",
            penalty |-> 0]
      ELSE IF hintType = "semantic"
           /\ limits.semanticPerPuzzle /= -1
           /\ usage.semanticTotal >= limits.semanticPerPuzzle
      THEN [allowed |-> FALSE, reason |-> "Clue hint limit reached for this puzzle",
            penalty |-> 0]
      ELSE IF hintType = "letter"
           /\ limits.letterPerClue /= -1
           /\ usage.letterForClue >= limits.letterPerClue
      THEN [allowed |-> FALSE, reason |-> "Letter reveal limit reached for this clue",
            penalty |-> 0]
      ELSE IF hintType = "letter"
           /\ limits.letterPerPuzzle /= -1
           /\ usage.letterTotal >= limits.letterPerPuzzle
      THEN [allowed |-> FALSE, reason |-> "Letter reveal limit reached for this puzzle",
            penalty |-> 0]
      ELSE [allowed |-> TRUE, reason |-> "", penalty |-> limits.penalty]

\* candidateIndices without the check of the neighbours of an index
candidateIndicesNotRevealed(answer, userInput, alreadyRevealed) ==
  LET answerArr == ToUpperCase(answer)
      userArr == PadEnd(ToUpperCase(userInput), Len(answer))
      revealed == {alreadyRevealed[k] : k \in 1..Len(alreadyRevealed)}
  IN  {n \in 0..(Len(answerArr) - 1) :
         /\ n \notin revealed
         /\ userArr[n + 1] /= answerArr[n + 1]}

\* getStrategicLetterReveal: the indices (0-based) it may choose, none if it
\* returns null; intersections is the set of the indices the map holds
candidateIndices(answer, userInput, alreadyRevealed) ==
  LET answerArr == ToUpperCase(answer)
      userArr == PadEnd(ToUpperCase(userInput), Len(answer))
      revealed == {alreadyRevealed[k] : k \in 1..Len(alreadyRevealed)}
  IN  {n \in 0..(Len(answerArr) - 1) :
         /\ n \notin revealed
         /\ userArr[n + 1] /= answerArr[n + 1]
         /\ (n - 1) \notin revealed
         /\ (n + 1) \notin revealed}

getStrategicLetterReveal(answer, userInput, alreadyRevealed, intersections) ==
  LET candidates == candidateIndices(answer, userInput, alreadyRevealed)
      chosen == IF candidates \cap intersections /= {}
                THEN candidates \cap intersections
                ELSE candidates
  IN  {[found |-> TRUE, index |-> n, letter |-> ToUpperCase(answer)[n + 1]] : n \in chosen}

InitHints ==
  /\ DriverUnused
  /\ call = NoCall
  /\ GenerateIdle
  /\ HintsIdle

\* a click on a button of the difficulty selector
SelectDifficulty ==
  /\ \E d \in validDifficulties : selectedDifficulty' = d
  /\ UNCHANGED <<score, hintUsage, hintFetch, granted>>
  /\ UNCHANGED <<driverVars, call, generateVars>>

\* requestHint up to the fetch (lines 284-325)
RequestHint ==
  /\ hintFetch.stage = "none"
  /\ BagCardinality(granted) < MaxHints
  /\ \E clueId \in ClueIds, hintType \in HintTypes :
     \E userInput \in UserInputs(clueId) :
     \E byClue \in {[c \in DOMAIN hintUsage.byClue \cup {clueId} |->
                      IF c \in DOMAIN hintUsage.byClue THEN hintUsage.byClue[c]
                      ELSE NewClueUsage]} :
       /\ hintUsage' = [hintUsage EXCEPT !.byClue = byClue]
       /\ hintFetch' =
            [stage |-> "sent", clueId |-> clueId, hintType |-> hintType,
             answer |-> AnswerOf(clueId), userInput |-> userInput,
             alreadyRevealed |-> byClue[clueId].revealedIndices,
             difficulty |-> selectedDifficulty,
             usage |-> [semanticForClue |-> byClue[clueId].semantic,
                        semanticTotal |-> hintUsage.semanticTotal,
                        letterForClue |-> byClue[clueId].letter,
                        letterTotal |-> hintUsage.letterTotal],
             response |-> NoHintResponse,
             orphaned |-> FALSE]
  /\ UNCHANGED <<selectedDifficulty, score, granted>>
  /\ UNCHANGED <<driverVars, call, generateVars>>

\* the handler of POST /hint (crosswordRoutes.js lines 96-173)
ServeHint ==
  /\ hintFetch.stage = "sent"
  /\ \E check \in {checkHintAllowed(hintFetch.hintType, ToLowerCase(hintFetch.difficulty),
                                    hintFetch.usage)} :
     \E reveals \in {getStrategicLetterReveal(hintFetch.answer, hintFetch.userInput,
                                              hintFetch.alreadyRevealed, {})} :
     \E grant \in {[difficulty |-> hintFetch.difficulty, hintType |-> hintFetch.hintType,
                    clueId |-> hintFetch.clueId]} :
       IF ~check.allowed
       THEN /\ hintFetch' = [hintFetch EXCEPT
                 !.stage = "answered",
                 !.response = [status |-> 403, limitReached |-> TRUE,
                               error |-> check.reason, type |-> "", hint |-> NoHint,
                               penalty |-> 0]]
            /\ UNCHANGED granted
       ELSE IF hintFetch.hintType = "semantic"
       THEN /\ hintFetch' = [hintFetch EXCEPT
                 !.stage = "answered",
                 !.response = [status |-> 200, limitReached |-> FALSE, error |-> "",
                               type |-> "semantic", hint |-> NoHint,
                               penalty |-> check.penalty]]
            /\ granted' = granted (+) SetToBag({grant})
       ELSE IF reveals = {}
       THEN /\ hintFetch' = [hintFetch EXCEPT
                 !.stage = "answered",
                 !.response = [status |-> 200, limitReached |-> FALSE, error |-> "",
                               type |-> "letter", hint |-> NoHint, penalty |-> 0]]
            /\ UNCHANGED granted
       ELSE /\ \E reveal \in reveals :
                 hintFetch' = [hintFetch EXCEPT
                   !.stage = "answered",
                   !.response = [status |-> 200, limitReached |-> FALSE, error |-> "",
                                 type |-> "letter", hint |-> reveal,
                                 penalty |-> check.penalty]]
            /\ granted' = granted (+) SetToBag({grant})
  /\ UNCHANGED <<selectedDifficulty, score, hintUsage>>
  /\ UNCHANGED <<driverVars, call, generateVars>>

\* requestHint after the fetch (lines 327-372): the counts of the clue are
\* added to the clueUsage object taken before the fetch, the totals to the
\* hintUsage of the moment
ReceiveHint ==
  /\ hintFetch.stage = "answered"
  /\ \E data \in {hintFetch.response} : \E clueId \in {hintFetch.clueId} :
     \E clueUsage \in {IF hintFetch.orphaned THEN NewClueUsage
                       ELSE hintUsage.byClue[clueId]} :
     \E byClue \in {[c \in DOMAIN hintUsage.byClue |->
                      IF c = clueId /\ ~hintFetch.orphaned
                      THEN IF hintFetch.hintType = "semantic"
                           THEN [clueUsage EXCEPT !.semantic = @ + 1]
                           ELSE [clueUsage EXCEPT
                                   !.letter = @ + 1,
                                   !.revealedIndices = Append(@, data.hint.index)]
                      ELSE hintUsage.byClue[c]]} :
       IF data.status /= 200
       THEN UNCHANGED <<score, hintUsage>>
       ELSE /\ score' = IF data.penalty > 0
                        THEN (IF score - data.penalty > 0 THEN score - data.penalty ELSE 0)
                        ELSE score
            /\ hintUsage' =
                 IF hintFetch.hintType = "semantic"
                 THEN [hintUsage EXCEPT !.byClue = byClue, !.semanticTotal = @ + 1]
                 ELSE IF data.hint.found
                 THEN [hintUsage EXCEPT !.byClue = byClue, !.letterTotal = @ + 1]
                 ELSE hintUsage
  /\ hintFetch' = NoFetch
  /\ UNCHANGED <<selectedDifficulty, granted>>
  /\ UNCHANGED <<driverVars, call, generateVars>>

\* the fetch fails or its response cannot be read: the catch block (line 368)
FetchFails ==
  /\ hintFetch.stage \in {"sent", "answered"}
  /\ hintFetch' = NoFetch
  /\ UNCHANGED <<selectedDifficulty, score, hintUsage, granted>>
  /\ UNCHANGED <<driverVars, call, generateVars>>

NextHints ==
  \/ SelectDifficulty
  \/ RequestHint
  \/ ServeHint
  \/ ReceiveHint
  \/ FetchFails

SpecHints == InitHints /\ [][NextHints]_vars

(***************************************************************************)
(* Hints with generatePuzzle and resetPuzzle of the frontend, which        *)
(* replace hintUsage by a new object and may run while requestHint awaits  *)
(* its fetch: the buttons that start them are not disabled by a hint       *)
(* request.                                                                *)
(***************************************************************************)
\* hintUsage = { semanticTotal: 0, letterTotal: 0, byClue: {} } while a request
\* may be in flight: its clueUsage object is not in the new hintUsage
ReplaceHintUsage ==
  /\ score' = 100
  /\ hintUsage' = [semanticTotal |-> 0, letterTotal |-> 0, byClue |-> << >>]
  /\ hintFetch' = IF hintFetch.stage = "none" THEN hintFetch
                  ELSE [hintFetch EXCEPT !.orphaned = TRUE]

\* resetPuzzle (lines 70-77)
ResetPuzzle ==
  /\ ReplaceHintUsage
  /\ UNCHANGED <<selectedDifficulty, granted>>
  /\ UNCHANGED <<driverVars, call, generateVars>>

\* generatePuzzle with a topic (lines 107-170): the state is reset before the
\* fetch; what follows the fetch sets currentPuzzle and renders it
GeneratePuzzle ==
  /\ ReplaceHintUsage
  /\ UNCHANGED <<selectedDifficulty, granted>>
  /\ UNCHANGED <<driverVars, call, generateVars>>

NextRace ==
  \/ SelectDifficulty
  \/ RequestHint
  \/ ServeHint
  \/ ReceiveHint
  \/ FetchFails
  \/ ResetPuzzle
  \/ GeneratePuzzle

SpecRace == InitHints /\ [][NextRace]_vars


(***************************************************************************)
(* Direct calls of getStrategicLetterReveal, one after the other for one   *)
(* clue: of services/geminiService.js (with the intersections map) and of  *)
(* the copy in api/index.js and api/crossword/generate.js (without it).    *)
(* Every index returned is added to alreadyRevealed for the next call, as  *)
(* requestHint does; the user's input may change between the calls.        *)
(***************************************************************************)
\* the copy of the serverless API: any candidate may be chosen
getStrategicLetterRevealApi(answer, userInput, alreadyRevealed) ==
  {[found |-> TRUE, index |-> n, letter |-> ToUpperCase(answer)[n + 1]] :
     n \in candidateIndices(answer, userInput, alreadyRevealed)}

RevealAnswers ==
  { <<"S", "E", "A">>, <<"T", "r", "e", "e">>, <<"L", "E", "V", "E", "L">> }

\* the user's input: nothing, the answer in small letters, its first letter,
\* its letters but for a blank second cell, wrong letters beyond its length
RevealInputs(answer) ==
  { << >>, ToLowerCase(answer), <<answer[1]>>,
    [k \in 1..Len(answer) |-> IF k = 2 THEN " " ELSE answer[k]],
    [k \in 1..(Len(answer) + 1) |-> "X"] }

\* alreadyRevealed of the first call
RevealStarts == { << >>, <<1>>, <<0, 1>>, <<-1>> }

\* the indices the intersections map holds
RevealIntersections == { {}, {0}, {1, 2} }

InitReveal ==
  /\ DriverUnused
  /\ GenerateIdle
  /\ HintsIdle
  /\ call \in {[op |-> "getStrategicLetterReveal", answer |-> a, userInput |-> << >>,
                alreadyRevealed |-> start, intersections |-> {}, start |-> start,
                returned |-> FALSE, value |-> NoHint]
                 : a \in RevealAnswers, start \in RevealStarts}

\* alreadyRevealed of the next call
NextRevealed ==
  IF call.returned /\ call.value.found
  THEN Append(call.alreadyRevealed, call.value.index)
  ELSE call.alreadyRevealed

\* what a call returns: one of the reveals, or null
Returned(reveals) == IF reveals = {} THEN {NoHint} ELSE reveals

\* getStrategicLetterReveal of services/geminiService.js is called and returns
RevealBackend ==
  /\ call.op = "getStrategicLetterReveal"
  /\ \E userInput \in RevealInputs(call.answer), intersections \in RevealIntersections :
     \E alreadyRevealed \in {NextRevealed} :
     \E value \in Returned(getStrategicLetterReveal(call.answer, userInput,
                                                   alreadyRevealed, intersections)) :
       call' = [call EXCEPT !.userInput = userInput, !.alreadyRevealed = alreadyRevealed,
                            !.intersections = intersections, !.returned = TRUE,
                            !.value = value]
  /\ UNCHANGED <<driverVars, generateVars, hintVars>>

\* getStrategicLetterReveal of api/index.js is called and returns
RevealApi ==
  /\ call.op = "getStrategicLetterReveal"
  /\ \E userInput \in RevealInputs(call.answer) :
     \E alreadyRevealed \in {NextRevealed} :
     \E value \in Returned(getStrategicLetterRevealApi(call.answer, userInput,
                                                      alreadyRevealed)) :
       call' = [call EXCEPT !.userInput = userInput, !.alreadyRevealed = alreadyRevealed,
                            !.intersections = {}, !.returned = TRUE, !.value = value]
  /\ UNCHANGED <<driverVars, generateVars, hintVars>>

NextReveal ==
  \/ RevealBackend
  \/ RevealApi

SpecReveal == InitReveal /\ [][NextReveal]_vars

(***************************************************************************)
(* Serverless API, api/index.js and api/crossword/generate.js: the         *)
(* simplified generateLayout(entries) followed by toCrosswordJsFormat, as  *)
(* the handler of POST /api/crossword/generate calls them on the entries   *)
(* the generator returned.  Rows and columns of the grid count from 1 here *)
(* (row y of the model is grid[y - 1] of the code).                        *)
(***************************************************************************)
MaxApiEntries == 4
MinApiEntries == 3

ApiDictionary ==
  { <<"C", "A", "T">>, <<"D", "O", "G">>, <<"O", "W", "L">>, <<"L", "I", "O", "N">> }

\* the entries the handler passes on: entries.length >= 3
ApiEntryLists ==
  UNION {{[k \in 1..n |-> [a |-> f[k], c |-> k]] : f \in [1..n -> ApiDictionary]}
         : n \in MinApiEntries..MaxApiEntries}

\* entries.map((e, i) => ...), i = k - 1
simpleWords(list) ==
  [k \in 1..Len(list) |->
    [answer |-> list[k].a, clue |-> list[k].c, startx |-> 1, starty |-> k,
     orientation |-> IF (k - 1) % 2 = 0 THEN "across" ELSE "down", position |-> k]]

simpleMaxX(words) ==
  SetMax({1} \cup {IF words[k].orientation = "across"
                   THEN words[k].startx + Len(words[k].answer)
                   ELSE words[k].startx + 1 : k \in 1..Len(words)})

simpleMaxY(words) ==
  SetMax({1} \cup {IF words[k].orientation = "across"
                   THEN words[k].starty + 1
                   ELSE words[k].starty + Len(words[k].answer) : k \in 1..Len(words)})

\* the index of the letter word w writes at column x of row y, 0 if none
simpleLetterAt(w, x, y) ==
  IF w.orientation = "across"
  THEN (IF y = w.starty /\ x >= w.startx /\ x < w.startx + Len(w.answer)
        THEN x - w.startx + 1 ELSE 0)
  ELSE (IF x = w.startx /\ y >= w.starty /\ y < w.starty + Len(w.answer)
        THEN y - w.starty + 1 ELSE 0)

\* the grid of '-' after words.forEach has written the words in their order:
\* a cell holds the letter of the last word that wrote it
simpleGrid(words) ==
  [y \in 1..simpleMaxY(words) |->
    [x \in 1..simpleMaxX(words) |->
      LET writers == {k \in 1..Len(words) : simpleLetterAt(words[k], x, y) > 0}
      IN  IF writers = {} THEN Dash
          ELSE words[SetMax(writers)].answer[simpleLetterAt(words[SetMax(writers)], x, y)]]]

simpleGenerateLayout(list) ==
  [grid |-> simpleGrid(simpleWords(list)), words |-> simpleWords(list),
   width |-> simpleMaxX(simpleWords(list)), height |-> simpleMaxY(simpleWords(list))]

simpleToCrosswordJsFormat(layout, topic) ==
  LET acrossWords == SelectSeq(layout.words, LAMBDA w : w.orientation = "across")
      downWords == SelectSeq(layout.words, LAMBDA w : w.orientation = "down")
      across == [k \in 1..Len(acrossWords) |->
                  [number |-> k, clue |-> acrossWords[k].clue,
                   answer |-> acrossWords[k].answer,
                   x |-> acrossWords[k].startx, y |-> acrossWords[k].starty]]
      down == [k \in 1..Len(downWords) |->
                [number |-> Len(across) + k, clue |-> downWords[k].clue,
                 answer |-> downWords[k].answer,
                 x |-> downWords[k].startx, y |-> downWords[k].starty]]
  IN  [meta |-> [title |-> ToUpperCase(SubSeq(topic, 1, 1)) \o SubSeq(topic, 2, Len(topic))
                             \o <<" ", "C", "r", "o", "s", "s", "w", "o", "r", "d">>],
       dimensions |-> [width |-> layout.width, height |-> layout.height],
       grid |-> layout.grid,
       clues |-> [across |-> across, down |-> down]]

InitSimple ==
  /\ DriverUnused
  /\ GenerateIdle
  /\ HintsIdle
  /\ call \in {[op |-> "generateLayout", entries |-> l, topic |-> t, returned |-> FALSE]
                 : l \in ApiEntryLists, t \in {ToLowerCase(x) : x \in Topics}}

\* const layout = generateLayout(entries);
\* const puzzle = toCrosswordJsFormat(layout, normalizedTopic);
ReturnSimple ==
  /\ call.op = "generateLayout"
  /\ ~call.returned
  /\ call' = [op |-> "generateLayout", entries |-> call.entries, topic |-> call.topic,
              returned |-> TRUE,
              value |-> simpleToCrosswordJsFormat(simpleGenerateLayout(call.entries),
                                                  call.topic)]
  /\ UNCHANGED <<driverVars, generateVars, hintVars>>

NextSimple == ReturnSimple

SpecSimple == InitSimple /\ [][NextSimple]_vars

(***************************************************************************)
(* Vocabulary of the properties.                                           *)
(***************************************************************************)
\* the cells a placement record covers
RunCells(w) ==
  {<<RowAt(w.row, w.direction, k), ColAt(w.col, w.direction, k)>> :
     k \in 0..(Len(w.answer) - 1)}

InsideGrid(r, c) == r >= 0 /\ r < size /\ c >= 0 /\ c < size

\* a cell is empty or outside the grid
EmptyOrOutside(r, c) == InsideGrid(r, c) => grid[r][c] = Null

Crosses(a, b) == a.direction /= b.direction /\ RunCells(a) \cap RunCells(b) /= {}

\* the clue entries of the output, tagged with the list they are in
OutputEntries ==
  {[direction |-> "across", entry |-> output.across[k]] : k \in 1..Len(output.across)}
    \cup {[direction |-> "down", entry |-> output.down[k]] : k \in 1..Len(output.down)}

ReadsBefore(e1, e2) == e1.y < e2.y \/ (e1.y = e2.y /\ e1.x < e2.x)

\* the cells (r, c1)..(r, c2) are a maximal horizontal run of letters
MaximalAcrossRun(r, c1, c2) ==
  /\ c1 < c2
  /\ \A c \in c1..c2 : grid[r][c] /= Null
  /\ EmptyOrOutside(r, c1 - 1)
  /\ EmptyOrOutside(r, c2 + 1)

\* the cells (r1, c)..(r2, c) are a maximal vertical run of letters
MaximalDownRun(c, r1, r2) ==
  /\ r1 < r2
  /\ \A r \in r1..r2 : grid[r][c] /= Null
  /\ EmptyOrOutside(r1 - 1, c)
  /\ EmptyOrOutside(r2 + 1, c)

\* the records reachable from the anchor over crossings, in at most n steps
RECURSIVE ConnectedWithin(_)
ConnectedWithin(n) ==
  IF n = 0 THEN {1}
  ELSE LET near == ConnectedWithin(n - 1)
       IN  near \cup {k \in 1..Len(placedWords) :
                        \E j \in near : Crosses(placedWords[j], placedWords[k])}

(***************************************************************************)
(* C1: in every state of a layout run each placement record's letters are  *)
(* the grid's contents along its run, and two records that cover the same  *)
(* cell agree on its letter.                                               *)
(***************************************************************************)
C1_LettersMatchGrid ==
  Created =>
    /\ \A k \in 1..Len(placedWords) :
         LET w == placedWords[k]
         IN  \A n \in 0..(Len(w.answer) - 1) :
               grid[RowAt(w.row, w.direction, n)][ColAt(w.col, w.direction, n)]
                 = w.answer[n + 1]
    /\ \A k1, k2 \in 1..Len(placedWords) :
         LET a == placedWords[k1]
             b == placedWords[k2]
         IN  \A n1 \in 0..(Len(a.answer) - 1), n2 \in 0..(Len(b.answer) - 1) :
               (/\ RowAt(a.row, a.direction, n1) = RowAt(b.row, b.direction, n2)
                /\ ColAt(a.col, a.direction, n1) = ColAt(b.col, b.direction, n2))
                 => a.answer[n1 + 1] = b.answer[n2 + 1]

\* four words are placed and the last one shares cells with two earlier ones
C1_Witness ==
  /\ Len(placedWords) = 4
  /\ Cardinality({k \in 1..3 :
                    RunCells(placedWords[k]) \cap RunCells(placedWords[4]) /= {}}) >= 2

(***************************************************************************)
(* C2: in the final grid of a successful layout the cell before the start  *)
(* and the cell after the end of every placed word, along the word's       *)
(* direction, is empty or outside the grid.                                *)
(***************************************************************************)
C2_NoEndContact ==
  pc = "returned" =>
    \A k \in 1..Len(placedWords) :
      LET w == placedWords[k]
          len == Len(w.answer)
      IN  /\ EmptyOrOutside(RowAt(w.row, w.direction, -1), ColAt(w.col, w.direction, -1))
          /\ EmptyOrOutside(RowAt(w.row, w.direction, len), ColAt(w.col, w.direction, len))

(***************************************************************************)
(* C3: the output of a successful layout has exactly one clue entry per    *)
(* placement record: the across and down lists together are as long as     *)
(* placedWords, and every record's answer and clue are in the list of its  *)
(* direction.                                                              *)
(***************************************************************************)
C3_OneEntryPerRecord ==
  pc = "returned" =>
    /\ Len(output.across) + Len(output.down) = Len(placedWords)
    /\ \A k \in 1..Len(placedWords) :
         \E e \in OutputEntries :
           /\ e.direction = placedWords[k].direction
           /\ e.entry.answer = placedWords[k].answer
           /\ e.entry.clue = placedWords[k].clue

(***************************************************************************)
(* C4: in a successful layout every maximal horizontal run of two or more  *)
(* letters is the run of one placed across word, and every maximal         *)
(* vertical run of two or more letters is the run of one placed down word. *)
(***************************************************************************)
C4_NoAccidentalWords ==
  pc = "returned" =>
    \A a \in 0..(size - 1), b1 \in 0..(size - 1), b2 \in 0..(size - 1) :
      /\ MaximalAcrossRun(a, b1, b2) =>
           \E k \in 1..Len(placedWords) :
             /\ placedWords[k].direction = "across"
             /\ placedWords[k].row = a
             /\ placedWords[k].col = b1
             /\ Len(placedWords[k].answer) = b2 - b1 + 1
      /\ MaximalDownRun(a, b1, b2) =>
           \E k \in 1..Len(placedWords) :
             /\ placedWords[k].direction = "down"
             /\ placedWords[k].col = a
             /\ placedWords[k].row = b1
             /\ Len(placedWords[k].answer) = b2 - b1 + 1

(***************************************************************************)
(* C5: the clue numbers of a successful layout are exactly 1..K, K the     *)
(* number of cells that start a placed word; they increase strictly with   *)
(* the reading-order position of the start cell, so an across and a down   *)
(* word of one cell share their number; each list ascends by number; and   *)
(* every entry sits on the start of a placed word of its direction and     *)
(* answer, all entries shifted by the same offset.                         *)
(***************************************************************************)
C5_Numbering ==
  pc = "returned" =>
    LET K == Cardinality({<<placedWords[k].row, placedWords[k].col>> :
                            k \in 1..Len(placedWords)})
    IN  /\ {e.entry.number : e \in OutputEntries} = 1..K
        /\ \A e1, e2 \in OutputEntries :
             ReadsBefore(e1.entry, e2.entry) <=> e1.entry.number < e2.entry.number
        /\ \A k \in 1..(Len(output.across) - 1) :
             output.across[k].number < output.across[k + 1].number
        /\ \A k \in 1..(Len(output.down) - 1) :
             output.down[k].number < output.down[k + 1].number
        /\ \E dr \in 0..size, dc \in 0..size :
             \A e \in OutputEntries :
               \E k \in 1..Len(placedWords) :
                 /\ placedWords[k].direction = e.direction
                 /\ placedWords[k].answer = e.entry.answer
                 /\ placedWords[k].row = e.entry.y - 1 + dr
                 /\ placedWords[k].col = e.entry.x - 1 + dc

\* an across and a down entry share a number and a later cell has a higher one
C5_Witness ==
  /\ pc = "returned"
  /\ \E a \in 1..Len(output.across), d \in 1..Len(output.down) :
       output.across[a].number = output.down[d].number
  /\ \E e \in OutputEntries : e.entry.number >= 3

(***************************************************************************)
(* C6: every clue entry of the output starts inside the output grid, its   *)
(* run of answer.length cells (to the right for across, downwards for      *)
(* down) stays inside the output grid, and the cells read the answer.      *)
(***************************************************************************)
C6_RoundTrip ==
  pc = "returned" =>
    \A e \in OutputEntries :
      LET len == Len(e.entry.answer)
          x == e.entry.x
          y == e.entry.y
      IN  /\ x >= 1 /\ x <= output.width
          /\ y >= 1 /\ y <= output.height
          /\ Len(output.grid) = output.height
          /\ \A n \in 0..(len - 1) :
               LET xn == ColAt(x, e.direction, n)
                   yn == RowAt(y, e.direction, n)
               IN  /\ xn <= output.width
                   /\ yn <= output.height
                   /\ Len(output.grid[yn]) = output.width
                   /\ output.grid[yn][xn] = e.entry.answer[n + 1]

\* the output has an across entry below the first row and a down entry right of
\* the first column
C6_Witness ==
  /\ pc = "returned"
  /\ \E a \in 1..Len(output.across) : output.across[a].y > 1
  /\ \E d \in 1..Len(output.down) : output.down[d].x > 1

(***************************************************************************)
(* C7: the output grid is the minimal bounding box of the letters the grid *)
(* holds in any of its cells: width                                        *)
(* and height are the spans of the columns and rows that hold a letter and *)
(* are positive, the first and last row and column each hold a letter,     *)
(* every letter of the working grid is in it at its shifted place and      *)
(* every other cell is '-'.                                                *)
(***************************************************************************)
C7_MinimalBox ==
  pc = "returned" =>
    LET cells == {rc \in (DOMAIN grid) \X (UNION {DOMAIN grid[r] : r \in DOMAIN grid}) :
                    rc[2] \in DOMAIN grid[rc[1]]}
        rows == {rc[1] : rc \in {x \in cells : grid[x[1]][x[2]] /= Null}}
        cols == {rc[2] : rc \in {x \in cells : grid[x[1]][x[2]] /= Null}}
        top == SetMin(rows)
        left == SetMin(cols)
        out == output.grid
        w == output.width
        h == output.height
    IN  /\ rows /= {} /\ cols /= {}
        /\ w = SetMax(cols) - left + 1 /\ w > 0
        /\ h = SetMax(rows) - top + 1 /\ h > 0
        /\ Len(out) = h
        /\ \A y \in 1..h : Len(out[y]) = w
        /\ \E x \in 1..w : out[1][x] /= Dash
        /\ \E x \in 1..w : out[h][x] /= Dash
        /\ \E y \in 1..h : out[y][1] /= Dash
        /\ \E y \in 1..h : out[y][w] /= Dash
        /\ \A rc \in cells :
             LET r == rc[1]
                 c == rc[2]
             IN  grid[r][c] /= Null =>
                   /\ r - top + 1 \in 1..h
                   /\ c - left + 1 \in 1..w
                   /\ out[r - top + 1][c - left + 1] = grid[r][c]
        /\ \A y \in 1..h, x \in 1..w :
             grid[top + y - 1][left + x - 1] = Null => out[y][x] = Dash

\* the box starts above the anchor row and holds empty cells
C7_Witness ==
  /\ pc = "returned"
  /\ output.height >= 3
  /\ output.width >= 4
  /\ \E c \in 0..(size - 1) : grid[startRow - 1][c] /= Null
  /\ \E y \in 1..output.height, x \in 1..output.width : output.grid[y][x] = Dash

(***************************************************************************)
(* C8: generateCrosswordLayout returns an output exactly when at least 3   *)
(* words are placed at the end of the passes; with fewer it throws and     *)
(* returns nothing, so a returned output never stands for fewer than 3     *)
(* placed words and is never empty.                                        *)
(***************************************************************************)
C8_AllOrNothing ==
  /\ pc = "returned" =>
       /\ Len(placedWords) >= 3
       /\ error = ""
       /\ output /= NoOutput
       /\ Len(output.across) + Len(output.down) > 0
  /\ pc = "thrown" =>
       /\ output = NoOutput
       /\ error /= ""
       /\ Created => Len(placedWords) < 3 /\ error = NotEnoughPlaced
  /\ pc \notin {"returned", "thrown"} => output = NoOutput /\ error = ""

\* a run of three or more entries that ends with two placed words and throws
C8_Witness ==
  /\ pc = "thrown"
  /\ Len(sortedEntries) >= 3
  /\ Len(placedWords) = 2

(***************************************************************************)
(* C9: called with no entry list or with fewer than 2 entries,             *)
(* generateCrosswordLayout throws at once: no grid is ever created and no  *)
(* word placed.                                                            *)
(***************************************************************************)
C9_InsufficientInput ==
  (entries.missing \/ Len(entries.list) < 2) =>
    /\ pc \in {"start", "thrown"}
    /\ ~Created
    /\ placedWords = << >>
    /\ sortedEntries = << >>
    /\ output = NoOutput
    /\ pc = "thrown" => error = NotEnoughWords

\* the call with one entry has thrown
C9_Witness ==
  /\ pc = "thrown"
  /\ ~entries.missing
  /\ Len(entries.list) = 1
  /\ error = NotEnoughWords

(***************************************************************************)
(* C10: in every state of a run every placed word but the anchor shares a  *)
(* cell with an earlier placed word of the other direction, the anchor is  *)
(* the first record, and so the placed words are connected by crossings.   *)
(***************************************************************************)
C10_Connected ==
  /\ \A k \in 2..Len(placedWords) :
       \E j \in 1..(k - 1) : Crosses(placedWords[j], placedWords[k])
  /\ Len(placedWords) >= 1 =>
       ConnectedWithin(Len(placedWords)) = 1..Len(placedWords)

\* the third word crosses the second and not the anchor
C10_Witness ==
  /\ Len(placedWords) >= 3
  /\ Crosses(placedWords[2], placedWords[3])
  /\ ~Crosses(placedWords[1], placedWords[3])

\* C11: every placement record's run lies inside the size x size grid
\* and no row of the grid holds a cell at a column outside it.
C11_RunsInsideGrid ==
  /\ \A k \in 1..Len(placedWords) :
       \A rc \in RunCells(placedWords[k]) : InsideGrid(rc[1], rc[2])
  /\ \A r \in DOMAIN grid : DOMAIN grid[r] \subseteq 0..(size - 1)

\* the number of loop iterations completed so far
Iteration == attempt * (Len(sortedEntries) - 1) + (i - 1)

Finished == pc \in {"returned", "thrown"}

(***************************************************************************)
(* C12: generateCrosswordLayout terminates.  Every step of the loop is the *)
(* next iteration in the order (attempt, i): it stays inside the passes    *)
(* 0..2 and the entries 1..n-1 and completes exactly one iteration, so     *)
(* each entry is attempted at most once per pass and findIntersections is  *)
(* called at most 3 * (n - 1) times; the loop is left exactly when         *)
(* 3 * (n - 1) iterations are done, and the run then returns the output or *)
(* throws.                                                                 *)
(***************************************************************************)
C12_Terminates ==
  /\ [][pc = "loop" =>
          /\ attempt \in 0..(maxAttempts - 1)
          /\ i \in 1..(Len(sortedEntries) - 1)
          /\ Iteration' = Iteration + 1
          /\ (pc' = "check") = (Iteration' = maxAttempts * (Len(sortedEntries) - 1))
          /\ pc' \in {"loop", "check"}]_vars
  /\ [][pc = "check" =>
          /\ Iteration = maxAttempts * (Len(sortedEntries) - 1)
          /\ Finished']_vars
  /\ <>Finished

\* a run of MaxFairEntries entries has ended after its three passes, in each of
\* which one entry found no place
C12_Witness ==
  /\ Finished
  /\ attempt = maxAttempts
  /\ Len(sortedEntries) = MaxFairEntries
  /\ Len(placedWords) = Len(sortedEntries) - 1

(***************************************************************************)
(* Vocabulary of the claims about direct calls.                            *)
(***************************************************************************)
\* the cell of position n (0-based) of the run canPlace was called with
CallCell(n) == <<RowAt(call.row, call.direction, n), ColAt(call.col, call.direction, n)>>

\* the cell is in the grid and holds a letter
Filled(rc) == InsideGrid(rc[1], rc[2]) /\ grid[rc[1]][rc[2]] /= Null

\* the cell is in the grid and holds no letter
Empty(rc) == InsideGrid(rc[1], rc[2]) /\ grid[rc[1]][rc[2]] = Null

\* the two neighbours of a cell across the direction of the run
SideCells(rc) ==
  IF call.direction = "across"
  THEN {<<rc[1] - 1, rc[2]>>, <<rc[1] + 1, rc[2]>>}
  ELSE {<<rc[1], rc[2] - 1>>, <<rc[1], rc[2] + 1>>}

\* position n of the run is an empty cell beside a letter
Touching(n) == Empty(CallCell(n)) /\ \E rc \in SideCells(CallCell(n)) : Filled(rc)

\* C16: a call of canPlace with a run of which some cell lies outside the
\* grid returns false and does not throw.
C16_OutsideRejected ==
  (/\ call.op = "canPlace"
   /\ \E n \in 0..(Len(call.word) - 1) : ~InsideGrid(CallCell(n)[1], CallCell(n)[2]))
    => (~call.threw /\ call.value = FALSE)

CallTriples ==
  {t \in (1..Len(placedWords)) \X (0..(Len(call.word) - 1)) \X (0..(size - 1)) :
     LET p == placedWords[t[1]]
         row == IF p.direction = "across" THEN p.row - t[2] ELSE p.row + t[3]
         col == IF p.direction = "across" THEN p.col + t[3] ELSE p.col - t[2]
     IN  /\ t[3] < Len(p.answer)
         /\ call.word[t[2] + 1] = p.answer[t[3] + 1]
         /\ row >= 0
         /\ col >= 0
         /\ canPlace(grid, call.word, row, col,
                     IF p.direction = "across" THEN "down" ELSE "across")}

\* the candidate of a triple
TripleCandidate(t) ==
  LET p == placedWords[t[1]]
  IN  IF p.direction = "across"
      THEN [row |-> p.row - t[2], col |-> p.col + t[3], direction |-> "down"]
      ELSE [row |-> p.row + t[3], col |-> p.col - t[2], direction |-> "across"]

\* enumeration order: placed word, then i, then j
TripleBefore(t, u) ==
  \/ t[1] < u[1]
  \/ t[1] = u[1] /\ t[2] < u[2]
  \/ t[1] = u[1] /\ t[2] = u[2] /\ t[3] <= u[3]

\* the place of a triple among the triples in enumeration order
TripleRank(t) == Cardinality({u \in CallTriples : TripleBefore(u, t)})

(***************************************************************************)
(* C18: findIntersections returns one candidate for every triple           *)
(* (placed word, i, j) with equal letters, non-negative row and column and *)
(* a run canPlace accepts, and nothing else: as many elements as triples,  *)
(* the candidate of the k-th triple in enumeration order at place k.       *)
(***************************************************************************)
C18_ExactCandidates ==
  call.op = "findIntersections"
    => /\ Len(call.value) = Cardinality(CallTriples)
       /\ \A t \in CallTriples : call.value[TripleRank(t)] = TripleCandidate(t)

\* findIntersections returned the same candidate twice
C18_Witness ==
  /\ call.op = "findIntersections"
  /\ \E a, b \in 1..Len(call.value) : a < b /\ call.value[a] = call.value[b]

(***************************************************************************)
(* Vocabulary of the claims about the order of the driver's choices.       *)
(***************************************************************************)
\* the grid after the first n placements of a list of records
RECURSIVE GridAfter(_, _)
GridAfter(pw, n) ==
  IF n = 0 THEN NewGrid
  ELSE PlaceLetters(GridAfter(pw, n - 1), pw[n].answer, pw[n].row, pw[n].col,
                    pw[n].direction)

\* the cells the first n records cover
CoveredBy(pw, n) == UNION {RunCells(pw[k]) : k \in 1..n}

\* twice the distance |row - centerRow| + |col - centerCol| of a candidate from
\* the centre of the bounding box of a set of cells
FromCentre2(cand, cells) ==
  Abs(2 * cand.row - (SetMin({rc[1] : rc \in cells}) + SetMax({rc[1] : rc \in cells})))
    + Abs(2 * cand.col - (SetMin({rc[2] : rc \in cells}) + SetMax({rc[2] : rc \in cells})))

\* the place a record was put at
PlaceOf(w) == [row |-> w.row, col |-> w.col, direction |-> w.direction]

(***************************************************************************)
(* C19: every step of the loop that places a word places the entry of the  *)
(* iteration at the candidate of findIntersections that is nearest to the  *)
(* centre of the bounding box of the words placed before the step, and at  *)
(* the first such candidate in enumeration order when several are nearest. *)
(***************************************************************************)
C19_ClosestToCentre ==
  [][(pc = "loop" /\ Len(placedWords') = Len(placedWords) + 1) =>
       LET cells == CoveredBy(placedWords, Len(placedWords))
           cands == findIntersections(grid, placedWords, sortedEntries[i + 1].answer)
           new == placedWords'[Len(placedWords')]
       IN  /\ new.answer = sortedEntries[i + 1].answer
           /\ \E k \in 1..Len(cands) :
                /\ cands[k] = PlaceOf(new)
                /\ \A m \in 1..Len(cands) :
                     FromCentre2(cands[m], cells) >= FromCentre2(cands[k], cells)
                /\ \A m \in 1..(k - 1) :
                     FromCentre2(cands[m], cells) > FromCentre2(cands[k], cells)]_vars

\* the last word was placed at a candidate that was not the first one listed
\* and that was as near to the centre as a different candidate listed after it
C19_Witness ==
  /\ Len(placedWords) >= 2
  /\ \E n \in {Len(placedWords)} :
     \E cells \in {CoveredBy(placedWords, n - 1)} :
     \E cands \in {findIntersections(GridAfter(placedWords, n - 1),
                                     SubSeq(placedWords, 1, n - 1),
                                     placedWords[n].answer)} :
       /\ cands[1] /= PlaceOf(placedWords[n])
       /\ \E k, m \in 1..Len(cands) :
            /\ k < m
            /\ cands[k] = PlaceOf(placedWords[n])
            /\ cands[m] /= cands[k]
            /\ FromCentre2(cands[m], cells) = FromCentre2(cands[k], cells)

\* the index in the input of the first entry with an answer of the greatest length
LongestFirst(list) ==
  SetMin({k \in 1..Len(list) :
            \A m \in 1..Len(list) : Len(list[m].answer) <= Len(list[k].answer)})

(***************************************************************************)
(* C20: the first placement record is the entry with the longest answer,   *)
(* the earliest of them in the input, across at (2,2) with number 1; the   *)
(* loop goes through the other entries of sortedEntries, which holds the   *)
(* entries of the input in non-increasing order of answer length, from     *)
(* index 1 upwards in every pass.                                          *)
(***************************************************************************)
C20_LongestFirst ==
  /\ [](Len(placedWords) >= 1 =>
          /\ placedWords[1] =
               [answer |-> entries.list[LongestFirst(entries.list)].answer,
                clue |-> entries.list[LongestFirst(entries.list)].clue,
                row |-> startRow, col |-> startCol, direction |-> "across",
                number |-> 1]
          /\ Len(sortedEntries) = Len(entries.list)
          /\ \A k \in 1..Len(entries.list) :
               \E m \in 1..Len(sortedEntries) : sortedEntries[m] = entries.list[k]
          /\ \A k \in 1..(Len(sortedEntries) - 1) :
               Len(sortedEntries[k].answer) >= Len(sortedEntries[k + 1].answer))
  /\ [][pc = "loop" =>
          /\ (Len(placedWords') = Len(placedWords) + 1 =>
                /\ placedWords'[Len(placedWords')].answer = sortedEntries[i + 1].answer
                /\ placedWords'[Len(placedWords')].clue = sortedEntries[i + 1].clue)
          /\ (pc' = "loop" /\ attempt' = attempt => i' = i + 1)
          /\ (pc' = "loop" /\ attempt' /= attempt => i' = 1)]_vars

\* in a second pass: the input began with a shorter answer and held two of the
\* greatest length, and the anchor is the first of these
C20_Witness ==
  /\ pc = "loop"
  /\ attempt >= 1
  /\ i >= 2
  /\ LongestFirst(entries.list) > 1
  /\ \E k \in (LongestFirst(entries.list) + 1)..Len(entries.list) :
       Len(entries.list[k].answer) = Len(placedWords[1].answer)

(***************************************************************************)
(* Vocabulary of the claim about toCrosswordJsFormat.                      *)
(***************************************************************************)
\* the words of the layout that belong in the across list, or in the down list
WordsOf(layout, across) ==
  {k \in 1..Len(layout.words) : (layout.words[k].direction = "across") = across}

\* the list holds, for every word of the set, one entry with the word's clue,
\* answer, position, startX and startY, and no other entry
HoldsExactly(list, layout, ks) ==
  /\ Len(list) = Cardinality(ks)
  /\ \A k \in ks :
       \E m \in 1..Len(list) :
         /\ list[m].clue = layout.words[k].clue
         /\ list[m].answer = layout.words[k].answer
         /\ list[m].number = layout.words[k].position
         /\ list[m].x = layout.words[k].startX
         /\ list[m].y = layout.words[k].startY

\* no entry of the list has a number greater than that of a later entry
AscendingByNumber(list) ==
  \A k, m \in 1..Len(list) :
    (k < m /\ list[k].number.type = "number" /\ list[m].number.type = "number")
      => list[k].number.val <= list[m].number.val

(***************************************************************************)
(* C13: toCrosswordJsFormat returns the width and height of the layout,    *)
(* the topic followed by " Crossword" as title, the grid of the layout,    *)
(* every word of direction 'across' once in clues.across and every other   *)
(* word once in clues.down with its position as number and its startX and  *)
(* startY as x and y, and each of the two lists ascending by number.       *)
(***************************************************************************)
C13_Format ==
  (call.op = "toCrosswordJsFormat" /\ call.returned) =>
    /\ call.value.dimensions.width = call.layout.width
    /\ call.value.dimensions.height = call.layout.height
    /\ Len(call.value.meta.title) = Len(call.topic) + 10
    /\ SubSeq(call.value.meta.title, 1, Len(call.topic)) = call.topic
    /\ SubSeq(call.value.meta.title, Len(call.topic) + 1, Len(call.topic) + 10)
         = <<" ", "C", "r", "o", "s", "s", "w", "o", "r", "d">>
    /\ call.value.grid = call.layout.grid
    /\ HoldsExactly(call.value.clues.across, call.layout, WordsOf(call.layout, TRUE))
    /\ HoldsExactly(call.value.clues.down, call.layout, WordsOf(call.layout, FALSE))
    /\ AscendingByNumber(call.value.clues.across)
    /\ AscendingByNumber(call.value.clues.down)

\* C13 for the layouts in which every word has a position: of these the whole
\* of C13 holds
C13_FormatOfPlaced ==
  (/\ call.op = "toCrosswordJsFormat"
   /\ call.returned
   /\ \A k \in 1..Len(call.layout.words) : call.layout.words[k].position.type = "number")
    => C13_Format

(***************************************************************************)
(* Vocabulary of the claim about POST /generate.                           *)
(***************************************************************************)
\* the topic is missing, not a string, empty, or trimmed shorter than 2 or
\* longer than 100 characters
TopicRefused ==
  \/ req.topic.type /= "string"
  \/ Len(req.topic.val) = 0
  \/ Len(Trim(req.topic.val)) < 2
  \/ Len(Trim(req.topic.val)) > 100

\* a difficulty is given (a value the handler does not replace by 'medium')
\* and it is none of easy, medium and hard in whatever case
DifficultyRefused ==
  /\ Truthy(req.difficulty)
  /\ ~(/\ req.difficulty.type = "string"
       /\ ToLowerCase(req.difficulty.val) \in {Easy, Medium, Hard})

(***************************************************************************)
(* C14: a POST /generate request with a refused topic or a refused         *)
(* difficulty never has getCached or generateCluesAndAnswers called, and   *)
(* is answered with status 400 and an error text.                          *)
(***************************************************************************)
C14_InvalidRejected ==
  (handlerPc /= "idle" /\ (TopicRefused \/ DifficultyRefused)) =>
    /\ cacheReads = << >>
    /\ generatorCalls = << >>
    /\ handlerPc \in {"received", "done"}
    /\ handlerPc = "done" => (res.status = 400 /\ res.error /= "")

\* C14 without the requests whose topic is a non-empty string and whose
\* difficulty is neither a string nor replaced by 'medium': of the others C14
\* holds
C14_InvalidRejectedButTypeError ==
  ~(/\ Truthy(req.topic)
    /\ req.topic.type = "string"
    /\ Truthy(req.difficulty)
    /\ req.difficulty.type /= "string")
    => C14_InvalidRejected


(***************************************************************************)
(* Hints against the limits.                                               *)
(***************************************************************************)
RECURSIVE GrantCount(_, _)
GrantCount(keys, bag) ==
  IF keys = {} THEN 0
  ELSE LET k == CHOOSE x \in keys : TRUE
       IN  CopiesIn(k, bag) + GrantCount(keys \ {k}, bag)

\* the number of hints of a type that bag holds for difficulties ds and clues cs
Grants(bag, ds, hintType, cs) ==
  GrantCount({[difficulty |-> d, hintType |-> hintType, clueId |-> c] : d \in ds, c \in cs},
             bag)

\* the usage counts of request f are the hints granted so far
ReportsGranted(f) ==
  /\ f.usage.semanticForClue = Grants(granted, validDifficulties, "semantic", {f.clueId})
  /\ f.usage.semanticTotal = Grants(granted, validDifficulties, "semantic", ClueIds)
  /\ f.usage.letterForClue = Grants(granted, validDifficulties, "letter", {f.clueId})
  /\ f.usage.letterTotal = Grants(granted, validDifficulties, "letter", ClueIds)

\* the limits as the levels state them
WithinLimits(bag) ==
  /\ \A c \in ClueIds :
       /\ Grants(bag, {Medium}, "semantic", {c}) <= 1
       /\ Grants(bag, {Medium}, "letter", {c}) <= 1
       /\ Grants(bag, {Easy}, "letter", {c}) <= 2
  /\ Grants(bag, {Hard}, "semantic", ClueIds) <= 1
  /\ Grants(bag, {Hard}, "letter", ClueIds) <= 1

\* request f is at or over a limit of its level
AtLimit(f) ==
  \/ /\ f.difficulty = Medium
     /\ \/ f.hintType = "semantic" /\ f.usage.semanticForClue >= 1
        \/ f.hintType = "letter" /\ f.usage.letterForClue >= 1
  \/ /\ f.difficulty = Hard
     /\ \/ f.hintType = "semantic"
           /\ (f.usage.semanticForClue >= 1 \/ f.usage.semanticTotal >= 1)
        \/ f.hintType = "letter"
           /\ (f.usage.letterForClue >= 1 \/ f.usage.letterTotal >= 1)
  \/ /\ f.difficulty = Easy
     /\ f.hintType = "letter"
     /\ f.usage.letterForClue >= 2

\* the step is the /hint route answering the request
Serving == hintFetch.stage = "sent" /\ hintFetch'.stage = "answered"

\* the step is requestHint reading the answer
Receiving == hintFetch.stage = "answered" /\ hintFetch'.stage = "none"

Refused(f) == f.response.status = 403 /\ f.response.limitReached

\* C15 (granting): when the /hint route answers a request whose usage counts
\* are the hints granted so far, and the hints granted so far are within the
\* limits (medium: 1 semantic hint and 1 letter reveal a clue; hard: 1 semantic
\* hint and 1 letter reveal a puzzle; easy: 2 letter reveals a clue), they are
\* within the limits after the answer too; and a semantic hint on easy is
\* never refused.
C15_GrantsWithinLimits ==
  [][Serving =>
       /\ (ReportsGranted(hintFetch) /\ WithinLimits(granted)) => WithinLimits(granted')
       /\ (hintFetch.difficulty = Easy /\ hintFetch.hintType = "semantic")
            => (hintFetch'.response.status = 200 /\ granted' /= granted)]_vars

\* C15 (refusing): a request at or over a limit is answered 403 with
\* limitReached and grants nothing, and requestHint reading such an answer
\* leaves the usage counters and the score as they are.
C15_RefusedAtLimit ==
  [][/\ (Serving /\ AtLimit(hintFetch)) => (Refused(hintFetch') /\ granted' = granted)
     /\ (Receiving /\ Refused(hintFetch)) => (hintUsage' = hintUsage /\ score' = score)]_vars

\* C15: with usage counts equal to the hints granted so far the /hint route
\* grants hints only within the limits of the level (medium: 1 semantic hint
\* and 1 letter reveal a clue; hard: 1 of each a puzzle; easy: 2 letter reveals
\* a clue, semantic hints without limit), and a request at or over a limit is
\* refused with limitReached and does not increase the usage counters.
C15_HintLimits == C15_GrantsWithinLimits /\ C15_RefusedAtLimit

\* a second semantic hint of a puzzle, for another clue, has been refused on hard
C15_Witness ==
  /\ hintFetch.stage = "answered"
  /\ Refused(hintFetch)
  /\ hintFetch.difficulty = Hard
  /\ hintFetch.hintType = "semantic"
  /\ ReportsGranted(hintFetch)
  /\ hintFetch.usage.semanticForClue = 0
  /\ Grants(granted, {Hard}, "semantic", ClueIds \ {hintFetch.clueId}) = 1

\* a third letter reveal of a clue has been refused on easy
C15_WitnessEasy ==
  /\ hintFetch.stage = "answered"
  /\ Refused(hintFetch)
  /\ hintFetch.difficulty = Easy
  /\ ReportsGranted(hintFetch)
  /\ Grants(granted, {Easy}, "letter", {hintFetch.clueId}) = 2

\* usage counts below the hints granted (an answer was lost) let the route
\* grant past a limit
C15_WitnessLostAnswer == ~WithinLimits(granted)


(***************************************************************************)
(* Vocabulary of the claims about the passes of the driver.                *)
(***************************************************************************)
\* the index in sortedEntries of the first entry with the answer
SortedIndex(answer) ==
  SetMin({k \in 1..Len(sortedEntries) : sortedEntries[k].answer = answer})

\* the entries of the output have the answer
InOutput(answer) == \E e \in OutputEntries : e.entry.answer = answer

\* the word placed by the step
Placed(answer) ==
  /\ Len(placedWords') = Len(placedWords) + 1
  /\ placedWords'[Len(placedWords')].answer = answer

(***************************************************************************)
(* C21: every pass goes through all the entries after the anchor, and the  *)
(* next of the three passes begins when one ends; an entry that is not     *)
(* placed yet is looked up against the grid that holds every word placed   *)
(* so far, is placed in that step if it has a candidate, and otherwise is  *)
(* left for the next pass without an error; an entry never placed has no   *)
(* entry in the output.                                                    *)
(***************************************************************************)
C21_RetriedInNextPass ==
  /\ [][pc = "loop" =>
          LET entry == sortedEntries[i + 1]
              last == Len(sortedEntries) - 1
          IN  /\ grid = GridAfter(placedWords, Len(placedWords))
              /\ i < last => (pc' = "loop" /\ attempt' = attempt /\ i' = i + 1)
              /\ (i = last /\ attempt + 1 < maxAttempts) =>
                   (pc' = "loop" /\ attempt' = attempt + 1 /\ i' = 1)
              /\ (i = last /\ attempt + 1 = maxAttempts) => pc' = "check"
              /\ ~AlreadyPlaced(placedWords, entry) =>
                   IF findIntersections(grid, placedWords, entry.answer) /= << >>
                   THEN Placed(entry.answer)
                   ELSE /\ placedWords' = placedWords
                        /\ grid' = grid
                        /\ error' = ""
                        /\ pc' /= "thrown"]_vars
  /\ [](pc = "returned" =>
          \A k \in 1..Len(sortedEntries) :
            ~AlreadyPlaced(placedWords, sortedEntries[k]) =>
              ~InOutput(sortedEntries[k].answer))

\* a run has returned in which a word (SKY) was placed in a later pass than a
\* word that comes after it in sortedEntries, and an entry (BOX) was
\* never placed
C21_Witness ==
  /\ pc = "returned"
  /\ \E k, m \in 2..Len(placedWords) :
       /\ k < m
       /\ SortedIndex(placedWords[m].answer) < SortedIndex(placedWords[k].answer)
  /\ \E k \in 1..Len(sortedEntries) :
       /\ ~AlreadyPlaced(placedWords, sortedEntries[k])
       /\ ~InOutput(sortedEntries[k].answer)


(***************************************************************************)
(* C22: in every state of a run the k-th record of placedWords has the     *)
(* number k: the anchor has 1 and the numbers follow the order of          *)
(* insertion without gaps or repeats.                                      *)
(***************************************************************************)
C22_NumbersInInsertionOrder ==
  /\ \A k \in 1..Len(placedWords) : placedWords[k].number = k
  /\ pc \in {"loop", "check", "returned"} => placedCount = Len(placedWords)

\* a run with passes in which an entry was skipped or found no place has
\* placed four words
C22_Witness ==
  /\ pc = "check"
  /\ Len(placedWords) = 4
  /\ placedWords[4].number = 4
  /\ \E k \in 1..3 : sortedEntries[k + 1].answer /= placedWords[k + 1].answer

(***************************************************************************)
(* C23: a step that calls place appends exactly one record to placedWords  *)
(* and leaves the records before it as they were, in their order; it sets  *)
(* every cell of the run of the new record to the letter of the word and   *)
(* leaves every other cell as it was.  No step of a run removes a record   *)
(* or changes the grid without placing a word, so every value of           *)
(* placedWords is a prefix of every later one.                             *)
(***************************************************************************)
C23_PlaceFrame ==
  /\ [][(Created /\ placedWords' /= placedWords) =>
          LET n == Len(placedWords)
              new == placedWords'[n + 1]
          IN  /\ Len(placedWords') = n + 1
              /\ SubSeq(placedWords', 1, n) = placedWords
              /\ DOMAIN grid' = DOMAIN grid
              /\ \A k \in 0..(Len(new.answer) - 1) :
                   /\ RowAt(new.row, new.direction, k) \in DOMAIN grid'
                   /\ ColAt(new.col, new.direction, k)
                        \in DOMAIN grid'[RowAt(new.row, new.direction, k)]
                   /\ grid'[RowAt(new.row, new.direction, k)]
                           [ColAt(new.col, new.direction, k)] = new.answer[k + 1]
              /\ \A r \in DOMAIN grid' : \A c \in DOMAIN grid'[r] :
                   <<r, c>> \notin RunCells(new) =>
                     c \in DOMAIN grid[r] /\ grid'[r][c] = grid[r][c]]_vars
  /\ [][Created =>
          /\ Len(placedWords') >= Len(placedWords)
          /\ SubSeq(placedWords', 1, Len(placedWords)) = placedWords
          /\ placedWords' = placedWords => grid' = grid]_vars

\* a word has been placed over a cell that held its letter already, beside
\* cells of other words
C23_Witness ==
  /\ pc = "loop"
  /\ Len(placedWords) >= 3
  /\ \E n \in {Len(placedWords)} :
       /\ RunCells(placedWords[n]) \cap CoveredBy(placedWords, n - 1) /= {}
       /\ CoveredBy(placedWords, n - 1) \ RunCells(placedWords[n]) /= {}


C24_WitnessCanPlace ==
  /\ call /= NoCall
  /\ call.op = "canPlace"
  /\ Len(placedWords) >= 2
  /\ ~call.threw
  /\ call.value


\* the entries of sortedEntries no record of placedWords has the answer of
Unplaced ==
  {k \in 1..Len(sortedEntries) :
     \A m \in 1..Len(placedWords) : placedWords[m].answer /= sortedEntries[k].answer}

C28_AnswersDistinct ==
  /\ [](\A k, m \in 1..Len(placedWords) :
          placedWords[k].answer = placedWords[m].answer => k = m)
  /\ [][(pc = "loop" /\ \E k \in 1..Len(placedWords) :
                          placedWords[k].answer = sortedEntries[i + 1].answer) =>
          (placedWords' = placedWords /\ grid' = grid)]_vars

\* a run has returned whose entries held the answer of a placed word other
\* than the anchor twice
C28_Witness ==
  /\ pc = "returned"
  /\ \E k \in 2..Len(placedWords) : \E a, b \in 1..Len(entries.list) :
       /\ a /= b
       /\ entries.list[a].answer = placedWords[k].answer
       /\ entries.list[b].answer = placedWords[k].answer

\* a run has returned whose entries held the anchor's answer twice
C28_WitnessAnchor ==
  /\ pc = "returned"
  /\ sortedEntries[2].answer = sortedEntries[1].answer


(***************************************************************************)
(* C29: a run on exactly 2 entries never returns an output: it passes the  *)
(* input check, places at most 2 words whether or not the answers share a  *)
(* letter, and after the passes throws for fewer than 3 placed words.      *)
(***************************************************************************)
C29_TwoEntriesFail ==
  (~entries.missing /\ Len(entries.list) = 2) =>
    /\ pc /= "returned"
    /\ output = NoOutput
    /\ Len(placedWords) <= 2
    /\ error /= NotEnoughWords
    /\ pc = "check" => TooFewPlaced(placedWords)
    /\ pc = "thrown" => (Created /\ attempt = maxAttempts /\ error = NotEnoughPlaced)

\* a run on 2 entries with a common letter has placed both and thrown
C29_Witness ==
  /\ ~entries.missing
  /\ Len(entries.list) = 2
  /\ pc = "thrown"
  /\ Len(placedWords) = 2
  /\ error = NotEnoughPlaced

\* a run on 2 entries without a common letter has thrown
C29_WitnessNoCommonLetter ==
  /\ ~entries.missing
  /\ Len(entries.list) = 2
  /\ pc = "thrown"
  /\ Len(placedWords) = 1


(***************************************************************************)
(* Vocabulary of the claim about the letter reveals.                       *)
(***************************************************************************)
\* the letter at index n (0-based) of a string, in capitals; a blank past its end
LetterAt(str, n) == IF n + 1 <= Len(str) THEN ToUpperCase(str)[n + 1] ELSE " "

\* index n of the call's answer may be revealed: it is not revealed, no index
\* next to it is revealed, and the user's input has another letter there
MayReveal(n) ==
  /\ n \in 0..(Len(call.answer) - 1)
  /\ \A k \in 1..Len(call.alreadyRevealed) : Abs(call.alreadyRevealed[k] - n) > 1
  /\ LetterAt(call.userInput, n) /= LetterAt(call.answer, n)

\* alreadyRevealed with the index the call returned
RevealedNow == NextRevealed

(***************************************************************************)
(* C25: a call of getStrategicLetterReveal returns an index that is not in *)
(* alreadyRevealed, is not next to an index in alreadyRevealed, and at     *)
(* which the user's input has another letter than the answer (letters      *)
(* compared in capitals), with the answer's letter at the index, and       *)
(* returns null exactly when there is no such index; over calls in which   *)
(* every returned index is added to alreadyRevealed the returned indices   *)
(* are distinct, and no returned index is next to a revealed one.          *)
(***************************************************************************)
C25_RevealsApart ==
  (call.op = "getStrategicLetterReveal" /\ call.returned) =>
    /\ IF call.value.found
       THEN /\ MayReveal(call.value.index)
            /\ call.value.letter = LetterAt(call.answer, call.value.index)
       ELSE \A n \in 0..(Len(call.answer) - 1) : ~MayReveal(n)
    /\ \A a, b \in 1..Len(RevealedNow) :
         (a /= b /\ (a > Len(call.start) \/ b > Len(call.start))) =>
           Abs(RevealedNow[a] - RevealedNow[b]) > 1

\* the third letter of a clue has been revealed, the calls having begun with
\* nothing revealed
C25_Witness ==
  /\ call.op = "getStrategicLetterReveal"
  /\ call.returned
  /\ call.value.found
  /\ call.start = << >>
  /\ Len(call.alreadyRevealed) = 2

\* a call has returned null although the user's input has a wrong letter that is
\* not revealed: the letter is next to a revealed one
C25_WitnessNull ==
  /\ call.op = "getStrategicLetterReveal"
  /\ call.returned
  /\ ~call.value.found
  /\ \E n \in 0..(Len(call.answer) - 1) :
       /\ \A k \in 1..Len(call.alreadyRevealed) : call.alreadyRevealed[k] /= n
       /\ LetterAt(call.userInput, n) /= LetterAt(call.answer, n)


\* the letters the grid of a puzzle holds from the place of a clue entry on, in the
\* direction of the list the entry is in
ReadFromGrid(puzzle, e, across) ==
  [k \in 1..Len(e.answer) |->
    IF across THEN puzzle.grid[e.y][e.x + k - 1] ELSE puzzle.grid[e.y + k - 1][e.x]]

\* C26: for a list of 3 or more entries, reading answer.length cells of the
\* grid the serverless API returns from the 1-based (x, y) of a clue entry, in
\* its orientation, gives the entry's answer.
C26_SimpleRoundTrip ==
  (call.op = "generateLayout" /\ call.returned /\ Len(call.entries) >= MinApiEntries) =>
    /\ \A k \in 1..Len(call.value.clues.across) :
         ReadFromGrid(call.value, call.value.clues.across[k], TRUE)
           = call.value.clues.across[k].answer
    /\ \A k \in 1..Len(call.value.clues.down) :
         ReadFromGrid(call.value, call.value.clues.down[k], FALSE)
           = call.value.clues.down[k].answer

\* what does hold: the entry of the last word reads back, and every run lies
\* inside the grid
C26_LastWordReadsBack ==
  (call.op = "generateLayout" /\ call.returned) =>
    LET n == Len(call.entries)
        across == call.value.clues.across
        down == call.value.clues.down
    IN  /\ call.value.dimensions.width = Len(call.value.grid[1])
        /\ call.value.dimensions.height = Len(call.value.grid)
        /\ Len(across) + Len(down) = n
        /\ IF (n - 1) % 2 = 0
           THEN ReadFromGrid(call.value, across[Len(across)], TRUE)
                  = across[Len(across)].answer
           ELSE ReadFromGrid(call.value, down[Len(down)], FALSE) = down[Len(down)].answer

\* a puzzle of three entries in which every entry reads back: the third answer
\* begins with the second letter of the second
C26_WitnessReadsBack ==
  /\ call.op = "generateLayout"
  /\ call.returned
  /\ Len(call.entries) = 3
  /\ \A k \in 1..Len(call.value.clues.down) :
       ReadFromGrid(call.value, call.value.clues.down[k], FALSE)
         = call.value.clues.down[k].answer
  /\ \A k \in 1..Len(call.value.clues.across) :
       ReadFromGrid(call.value, call.value.clues.across[k], TRUE)
         = call.value.clues.across[k].answer


RECURSIVE SumOver(_, _)
\* the sum of f over the clues in cs
SumOver(f, cs) ==
  IF cs = {} THEN 0
  ELSE LET c == CHOOSE x \in cs : TRUE
       IN  f[c] + SumOver(f, cs \ {c})

\* C30: in every state of the frontend, under any interleaving of hint
\* responses with generatePuzzle and resetPuzzle, hintUsage.semanticTotal is
\* the sum of the semantic counts over hintUsage.byClue and
\* hintUsage.letterTotal the sum of the letter counts.
C30_TotalsAreSums ==
  /\ hintUsage.semanticTotal =
       SumOver([c \in DOMAIN hintUsage.byClue |-> hintUsage.byClue[c].semantic],
               DOMAIN hintUsage.byClue)
  /\ hintUsage.letterTotal =
       SumOver([c \in DOMAIN hintUsage.byClue |-> hintUsage.byClue[c].letter],
               DOMAIN hintUsage.byClue)

\* what does hold: the totals are the sums as long as no answer is read by a
\* request that began before hintUsage was replaced
C30_TotalsAreSumsUnlessOrphaned ==
  [][(C30_TotalsAreSums /\ ~(hintFetch.stage = "answered" /\ hintFetch.orphaned))
       => C30_TotalsAreSums']_vars

\* a total counts a hint no clue of hintUsage.byClue counts
C30_WitnessLostCount ==
  /\ hintUsage.semanticTotal = 1
  /\ hintUsage.byClue = << >>

=============================================================================
